---- MODULE Spec2Model ----
(***************************************************************************)
(* A model of the hearitage recognition endpoint: the recognition passes   *)
(* of app/api/recognize/route.ts, the evidence orchestrator, the           *)
(* evidence validator/merger of lib/factcheck/validator.ts and the         *)
(* process-wide fact-check cache.                                          *)
(*                                                                         *)
(* A text is a sequence of one-character strings.  Characters outside      *)
(* Latin-1 are written by name: "{e-acute}", "{ya}".                       *)
(***************************************************************************)
EXTENDS Integers, Sequences, FiniteSets, TLC

\* An absent value (null) and a present one, as sequences of length 0 and 1.
None == <<>>
Some(x) == <<x>>

Min(a, b) == IF a <= b THEN a ELSE b
Max(a, b) == IF a >= b THEN a ELSE b

SeqToSet(s) == {s[i] : i \in DOMAIN s}

(***************************************************************************)
(* Characters and the JavaScript string primitives the code relies on.     *)
(***************************************************************************)
LowerLatin ==
  {"a","b","c","d","e","f","g","h","i","j","k","l","m",
   "n","o","p","q","r","s","t","u","v","w","x","y","z"}
UpperLatin ==
  {"A","B","C","D","E","F","G","H","I","J","K","L","M",
   "N","O","P","Q","R","S","T","U","V","W","X","Y","Z"}
DigitChars == {"0","1","2","3","4","5","6","7","8","9"}
LowerCyrillic == {"{ya}"}
WhitespaceChars == {" "}

\* String.prototype.toLowerCase, one character at a time.
LowerOf ==
  [c \in UpperLatin \cup {"{YA}", "{E-ACUTE}"} |->
     CASE c = "A" -> "a" [] c = "B" -> "b" [] c = "C" -> "c" [] c = "D" -> "d"
       [] c = "E" -> "e" [] c = "F" -> "f" [] c = "G" -> "g" [] c = "H" -> "h"
       [] c = "I" -> "i" [] c = "J" -> "j" [] c = "K" -> "k" [] c = "L" -> "l"
       [] c = "M" -> "m" [] c = "N" -> "n" [] c = "O" -> "o" [] c = "P" -> "p"
       [] c = "Q" -> "q" [] c = "R" -> "r" [] c = "S" -> "s" [] c = "T" -> "t"
       [] c = "U" -> "u" [] c = "V" -> "v" [] c = "W" -> "w" [] c = "X" -> "x"
       [] c = "Y" -> "y" [] c = "Z" -> "z"
       [] c = "{YA}" -> "{ya}" [] c = "{E-ACUTE}" -> "{e-acute}"]

ToLowerChar(c) == IF c \in DOMAIN LowerOf THEN LowerOf[c] ELSE c

ToLowerCase(s) == [i \in 1..Len(s) |-> ToLowerChar(s[i])]

\* The regular expression class \w and the word boundary \b.
WordChars == LowerLatin \cup UpperLatin \cup DigitChars \cup {"_"}

RECURSIVE FirstSolid(_, _)
\* The first index from i upwards that holds no whitespace (Len(s) + 1 if none).
FirstSolid(s, i) ==
  IF i > Len(s) THEN i
  ELSE IF s[i] \notin WhitespaceChars THEN i
  ELSE FirstSolid(s, i + 1)

RECURSIVE LastSolid(_, _)
\* The last index from i downwards that holds no whitespace (0 if none).
LastSolid(s, i) ==
  IF i < 1 THEN 0
  ELSE IF s[i] \notin WhitespaceChars THEN i
  ELSE LastSolid(s, i - 1)

\* String.prototype.trim.
Trim(s) == SubSeq(s, FirstSolid(s, 1), LastSolid(s, Len(s)))

\* s.replace(/\s+/g, " "): every run of whitespace becomes one space.
CollapseWhitespace(s) ==
  LET marked == [i \in 1..Len(s) |->
                   [char |-> IF s[i] \in WhitespaceChars THEN " " ELSE s[i],
                    keep |-> \/ s[i] \notin WhitespaceChars
                             \/ i = 1
                             \/ s[i-1] \notin WhitespaceChars]]
      CharsOf(kept) == [i \in 1..Len(kept) |-> kept[i].char]
  IN  CharsOf(SelectSeq(marked, LAMBDA m : m.keep))

\* s.replace(/[^...]/g, " "): every character outside keep becomes a space.
KeepOnly(s, keep) == [i \in 1..Len(s) |-> IF s[i] \in keep THEN s[i] ELSE " "]

\* parts.map((part) => part.trim()).
TrimAll(parts) == [i \in 1..Len(parts) |-> Trim(parts[i])]

\* haystack.includes(needle).
Includes(hay, needle) ==
  \/ Len(needle) = 0
  \/ \E i \in 1..(Len(hay) - Len(needle) + 1) :
       SubSeq(hay, i, i + Len(needle) - 1) = needle

RECURSIVE SplitAcc(_, _, _, _)
SplitAcc(s, c, i, cur) ==
  IF i > Len(s) THEN <<cur>>
  ELSE IF s[i] = c THEN <<cur>> \o SplitAcc(s, c, i + 1, <<>>)
  ELSE SplitAcc(s, c, i + 1, Append(cur, s[i]))

\* s.split(c) for a one-character separator.
SplitChar(s, c) == SplitAcc(s, c, 1, <<>>)

RECURSIVE JoinWith(_, _)
\* parts.join(sep).
JoinWith(parts, sep) ==
  IF Len(parts) = 0 THEN <<>>
  ELSE IF Len(parts) = 1 THEN parts[1]
  ELSE parts[1] \o sep \o JoinWith(Tail(parts), sep)

\* array.slice(0, n).
SliceTo(s, n) == SubSeq(s, 1, Min(n, Len(s)))

NonEmptyText(t) == Len(t) > 0

(***************************************************************************)
(* lib/factcheck/validator.ts                                              *)
(***************************************************************************)
NormalizeKeepChars == LowerLatin \cup DigitChars \cup LowerCyrillic \cup WhitespaceChars

normalize(value) ==
  Trim(CollapseWhitespace(KeepOnly(ToLowerCase(value), NormalizeKeepChars)))

tokenize(value) ==
  SelectSeq(TrimAll(SplitChar(normalize(value), " ")),
            LAMBDA token : Len(token) >= 4)

SentenceEnders == {".", "!", "?"}

RECURSIVE SplitSentencesAcc(_, _, _)
\* value.split(/(?<=[.!?])\s+/): a whitespace run is a separator when the
\* character before it ends a sentence.
SplitSentencesAcc(s, i, cur) ==
  IF i > Len(s) THEN <<cur>>
  ELSE IF s[i] \in WhitespaceChars /\ i > 1 /\ s[i-1] \in SentenceEnders
       THEN LET rest == {j \in i..Len(s) : s[j] \notin WhitespaceChars}
                next == IF rest = {} THEN Len(s) + 1
                        ELSE CHOOSE j \in rest : \A k \in rest : j <= k
            IN  <<cur>> \o SplitSentencesAcc(s, next, <<>>)
       ELSE SplitSentencesAcc(s, i + 1, Append(cur, s[i]))

splitSentences(value) ==
  SelectSeq(TrimAll(SplitSentencesAcc(value, 1, <<>>)), NonEmptyText)

\* A match of /\b(1[0-9]{3}|20[0-9]{2})\b/ starting at index i.
IsYearAt(text, i) ==
  /\ i + 3 <= Len(text)
  /\ \A k \in i..(i + 3) : text[k] \in DigitChars
  /\ \/ text[i] = "1"
     \/ text[i] = "2" /\ text[i+1] = "0"
  /\ (i = 1 \/ text[i-1] \notin WordChars)
  /\ (i + 3 = Len(text) \/ text[i+4] \notin WordChars)

extractYears(text) ==
  {SubSeq(text, i, i + 3) : i \in {j \in 1..Len(text) : IsYearAt(text, j)}}

\* addCanonicalValue: the set with normalize(value) added, unless that is
\* empty or the sentinel.
addCanonicalValue(set, value) ==
  LET Add(normalized) ==
        IF normalized = <<>> \/ normalized = <<"u","n","k","n","o","w","n">>
        THEN set
        ELSE set \cup {normalized}
  IN  Add(normalize(value))

RecordValuesOf(records, field) ==
  {records[i].value : i \in {j \in DOMAIN records : records[j].field = field}}

RECURSIVE AddAll(_, _)
AddAll(set, values) ==
  IF values = {} THEN set
  ELSE LET v == CHOOSE v \in values : TRUE
       IN  AddAll(addCanonicalValue(set, v), values \ {v})

buildKnowledge(base, evidence) ==
  [painting |-> AddAll(addCanonicalValue({}, base.painting),
                       RecordValuesOf(evidence.records, "painting")),
   artist   |-> AddAll(addCanonicalValue({}, base.artist),
                       RecordValuesOf(evidence.records, "artist")),
   year     |-> AddAll(addCanonicalValue({}, base.year),
                       RecordValuesOf(evidence.records, "year")),
   museum   |-> AddAll(addCanonicalValue({}, base.museum),
                       RecordValuesOf(evidence.records, "museum")),
   style    |-> AddAll(addCanonicalValue({}, base.style),
                       RecordValuesOf(evidence.records, "style")),
   evidenceTokens |->
     UNION {SeqToSet(tokenize(evidence.records[i].value)) : i \in DOMAIN evidence.records}]

hasYearConflict(text, knownYears) ==
  LET Conflict(yearsInText) ==
        IF yearsInText = {} THEN FALSE
        ELSE \E year \in yearsInText :
               ~ \E known \in knownYears : Includes(known, year)
  IN  IF knownYears = {} THEN FALSE ELSE Conflict(extractYears(text))

hasCoreFieldMention(text, knowledge) ==
  LET Mentions(normalized) ==
        /\ normalized # <<>>
        /\ \E value \in knowledge.painting \cup knowledge.artist
                          \cup knowledge.museum \cup knowledge.style :
             Len(value) >= 4 /\ Includes(normalized, value)
  IN  Mentions(normalize(text))

hasEvidenceTokenSupport(text, tokens) ==
  LET Enough(candidates, matched) ==
        \/ matched >= 2
        \/ matched >= 1 /\ Len(candidates) <= 7
      Supported(candidates) ==
        /\ Len(candidates) > 0
        /\ Enough(candidates,
                  Cardinality({i \in DOMAIN candidates : candidates[i] \in tokens}))
  IN  tokens # {} /\ Supported(tokenize(text))

\* A plausible slip: the year rule is left out of the support decision.
isSupportedTextNoYearRule(text, knowledge) ==
  /\ Trim(text) # <<>>
  /\ \/ hasCoreFieldMention(text, knowledge)
     \/ hasEvidenceTokenSupport(text, knowledge.evidenceTokens)

isSupportedText(text, knowledge) ==
  IF Trim(text) = <<>> THEN FALSE
  ELSE IF hasYearConflict(text, knowledge.year) THEN FALSE
  ELSE IF hasCoreFieldMention(text, knowledge) THEN TRUE
  ELSE hasEvidenceTokenSupport(text, knowledge.evidenceTokens)

RECURSIVE dedupeFactsAcc(_, _, _)
dedupeFactsAcc(facts, i, seen) ==
  LET Rest(normalized) ==
        IF normalized = <<>> \/ normalized \in seen
        THEN dedupeFactsAcc(facts, i + 1, seen)
        ELSE <<Trim(facts[i])>>
               \o dedupeFactsAcc(facts, i + 1, seen \cup {normalized})
  IN  IF i > Len(facts) THEN <<>> ELSE Rest(normalize(facts[i]))

dedupeFacts(facts) == dedupeFactsAcc(facts, 1, {})

\* A plausible slip: a timeout always yields skipped_timeout, whatever was
\* verified.
chooseStatusTimeoutFirst(evidence, timedOut, verifiedFacts, keptSummaryAddonSentences) ==
  IF timedOut THEN "skipped_timeout"
  ELSE IF Len(evidence.records) = 0 THEN "skipped_no_evidence"
  ELSE IF verifiedFacts >= 2 \/ keptSummaryAddonSentences >= 1 THEN "verified"
  ELSE "partial"

chooseStatus(evidence, timedOut, verifiedFacts, keptSummaryAddonSentences) ==
  IF Len(evidence.records) = 0
  THEN (IF timedOut THEN "skipped_timeout" ELSE "skipped_no_evidence")
  ELSE IF timedOut /\ verifiedFacts = 0 /\ keptSummaryAddonSentences = 0
       THEN "skipped_timeout"
  ELSE IF verifiedFacts >= 2 \/ keptSummaryAddonSentences >= 1
       THEN "verified"
  ELSE "partial"

RECURSIVE UniqueInOrder(_, _)
\* Array.from(new Set(list)): first occurrences, in order.
UniqueInOrder(list, seen) ==
  IF Len(list) = 0 THEN <<>>
  ELSE IF list[1] \in seen THEN UniqueInOrder(Tail(list), seen)
  ELSE <<list[1]>> \o UniqueInOrder(Tail(list), seen \cup {list[1]})

candidateFactsOf(draft) ==
  IF draft.isNull THEN <<>>
  ELSE SelectSeq(TrimAll(draft.facts), LAMBDA fact : Len(fact) >= 12)

\* A plausible slip: the cap is applied before the duplicates are removed.
verifiedFactsOfCapFirst(candidateFacts, knowledge, safeMaxFacts) ==
  dedupeFacts(SliceTo(SelectSeq(candidateFacts,
                                LAMBDA fact : isSupportedText(fact, knowledge)),
                      safeMaxFacts))

verifiedFactsOf(candidateFacts, knowledge, safeMaxFacts) ==
  SliceTo(dedupeFacts(SelectSeq(candidateFacts,
                                LAMBDA fact : isSupportedText(fact, knowledge))),
          safeMaxFacts)

addonSentencesOf(draft) ==
  splitSentences(IF draft.isNull THEN <<>> ELSE draft.summaryAddon)

\* A plausible slip: every supported sentence is appended.
keptAddonSentencesOfUncapped(addonSentences, knowledge) ==
  SelectSeq(addonSentences, LAMBDA sentence : isSupportedText(sentence, knowledge))

keptAddonSentencesOf(addonSentences, knowledge) ==
  SliceTo(SelectSeq(addonSentences,
                    LAMBDA sentence : isSupportedText(sentence, knowledge)),
          2)

mergedSummaryOf(base, keptAddonSentences) ==
  LET mergedSummaryParts ==
        IF Len(keptAddonSentences) > 0
        THEN <<Trim(base.summary), JoinWith(keptAddonSentences, <<" ">>)>>
        ELSE <<Trim(base.summary)>>
      OrBase(mergedSummary) == IF mergedSummary # <<>> THEN mergedSummary ELSE base.summary
  IN  OrBase(Trim(JoinWith(SelectSeq(mergedSummaryParts, NonEmptyText), <<" ">>)))

\* A plausible slip: every provider of the bundle is listed.
sourcesOfEveryProvider(evidence) ==
  UniqueInOrder([i \in 1..Len(evidence.sources) |-> evidence.sources[i].name], {})

sourcesOf(evidence) ==
  LET NamesOf(okSources) == [i \in 1..Len(okSources) |-> okSources[i].name]
  IN  UniqueInOrder(NamesOf(SelectSeq(evidence.sources,
                                      LAMBDA source : source.ok /\ source.recordCount > 0)),
                    {})

validateAndMerge(base, draft, evidence, maxFacts, latencyMs, timedOut) ==
  LET safeMaxFacts == Min(Max(maxFacts, 1), 5)
      Result(candidateFacts, verifiedFacts, addonSentences, keptAddonSentences) ==
        [facts |-> verifiedFacts,
         summary |-> mergedSummaryOf(base, keptAddonSentences),
         factCheck |->
           [status |-> chooseStatus(evidence, timedOut, Len(verifiedFacts),
                                    Len(keptAddonSentences)),
            verifiedFacts |-> Len(verifiedFacts),
            sources |-> sourcesOf(evidence),
            latencyMs |-> latencyMs],
         diagnostics |->
           [candidateFacts |-> candidateFacts,
            verifiedFacts |-> verifiedFacts,
            keptSummaryAddonSentences |-> Len(keptAddonSentences),
            droppedSummaryAddonSentences |->
              Max(Len(addonSentences) - Len(keptAddonSentences), 0),
            evidenceCoverageScore |-> evidence.coverageScore]]
      Merge(knowledge, candidateFacts, addonSentences) ==
        Result(candidateFacts,
               verifiedFactsOf(candidateFacts, knowledge, safeMaxFacts),
               addonSentences,
               keptAddonSentencesOf(addonSentences, knowledge))
  IN  Merge(buildKnowledge(base, evidence), candidateFactsOf(draft), addonSentencesOf(draft))

(***************************************************************************)
(* lib/factcheck/orchestrator.ts: coverage and the join of provider        *)
(* outputs.                                                                *)
(***************************************************************************)
CoverageFields == <<"painting", "artist", "year", "museum", "style">>

\* A plausible slip: every field that has a record counts, the summary
\* included.
computeCoverageOfEveryField(records) ==
  LET has(field) == \E i \in DOMAIN records : records[i].field = field
  IN  [coverage |-> [hasPainting |-> has("painting"), hasArtist |-> has("artist"),
                     hasYear |-> has("year"), hasMuseum |-> has("museum"),
                     hasStyle |-> has("style")],
       score |-> Cardinality({records[i].field : i \in DOMAIN records})]

computeCoverage(records) ==
  LET has(field) == \E i \in DOMAIN records : records[i].field = field
  IN  [coverage |-> [hasPainting |-> has("painting"), hasArtist |-> has("artist"),
                     hasYear |-> has("year"), hasMuseum |-> has("museum"),
                     hasStyle |-> has("style")],
       score |-> Cardinality({i \in DOMAIN CoverageFields : has(CoverageFields[i])})]

RECURSIVE FlatMapRecords(_)
FlatMapRecords(results) ==
  IF Len(results) = 0 THEN <<>>
  ELSE results[1].records \o FlatMapRecords(Tail(results))

\* A plausible slip: the records of the first result alone are kept.
joinProviderResultsFirstOnly(results) ==
  [records |-> IF Len(results) = 0 THEN <<>> ELSE results[1].records,
   sources |-> [i \in DOMAIN results |-> results[i].source]]

joinProviderResults(results) ==
  [records |-> FlatMapRecords(results),
   sources |-> [i \in 1..Len(results) |-> results[i].source]]

EvidenceRecord(field, value, sourceName, confidence) ==
  [field |-> field, value |-> value, sourceName |-> sourceName, confidence |-> confidence]

\* The ProviderOutput every provider returns: ok and recordCount follow the
\* records.
ProviderOutput(name, tier, latencyMs, records) ==
  [source |-> [name |-> name, tier |-> tier, latencyMs |-> latencyMs,
               ok |-> Len(records) > 0, recordCount |-> Len(records)],
   records |-> records]

\* The EvidenceBundle fetchEvidenceBundle assembles from the Phase A result
\* and the Phase B results.
EvidenceBundle(phaseAResult, secondaryResults, latencyMs, timedOut) ==
  LET Bundle(combined, coverage, phaseACoverage) ==
        [records |-> combined.records,
         sources |-> combined.sources,
         latencyMs |-> latencyMs,
         coverage |-> coverage.coverage,
         coverageScore |-> coverage.score,
         primaryCoverageScore |-> phaseACoverage.score,
         timedOut |-> timedOut]
      Covered(combined) ==
        Bundle(combined, computeCoverage(combined.records),
               computeCoverage(joinProviderResults(<<phaseAResult>>).records))
  IN  Covered(joinProviderResults(<<phaseAResult>> \o secondaryResults))

\* The deadlines fetchEvidenceBundle derives from its start time.

deadlineAtOf(startedAt, budgetMs) == startedAt + Max(600, budgetMs)

hardStopAtOf(startedAt, budgetMs, responseBufferMs) ==
  deadlineAtOf(startedAt, budgetMs) - Max(80, responseBufferMs)

\* A plausible slip: the threshold itself is enough for Phase B.
phaseBRunsAtThreshold(remainingMsAfterA) == remainingMsAfterA >= 220

phaseBRuns(remainingMsAfterA) == remainingMsAfterA > 220

\* Math.floor(remainingMsAfterA * 0.9), in integers.
perSecondaryTimeoutOf(providerTimeoutMs, remainingMsAfterA) ==
  Max(200, Min(providerTimeoutMs, (remainingMsAfterA * 9) \div 10))

\* The ProviderOutput put in the place of a provider that threw.
providerErrorFallback(name, tier) == ProviderOutput(name, tier, 0, <<>>)

(***************************************************************************)
(* The texts of the model: the sentinel, the fallbacks and the confidence  *)
(* words of route.ts, and what the identification model, the providers    *)
(* and the facts-draft call answer with.                                   *)
(***************************************************************************)
Text ==
  \* "unknown"
  [Unknown |->
     <<"u","n","k","n","o","w","n">>,
  \* " Unknown"
   UnknownCaps |->
     <<" ","U","n","k","n","o","w","n">>,
  \* "The Starry Night"
   StarryNight |->
     <<"T","h","e"," ","S","t","a","r","r","y"," ","N","i","g","h","t">>,
  \* "Vincent van Gogh"
   VanGogh |->
     <<"V","i","n","c","e","n","t"," ","v","a","n"," ","G","o","g","h">>,
  \* "1889"
   Year1889 |->
     <<"1","8","8","9">>,
  \* "c. 1889-1890"
   Circa1889 |->
     <<"c","."," ","1","8","8","9","-","1","8","9","0">>,
  \* "MoMA"
   MoMA |->
     <<"M","o","M","A">>,
  \* "Art Institute of Chicago"
   AIC |->
     <<"A","r","t"," ","I","n","s","t","i","t","u","t","e"," ","o","f"," ","C","h","i","c","a","g","o">>,
  \* "Post-Impressionism"
   Style |->
     <<"P","o","s","t","-","I","m","p","r","e","s","s","i","o","n","i","s","m">>,
  \* "Swirling sky."
   Reasoning |->
     <<"S","w","i","r","l","i","n","g"," ","s","k","y",".">>,
  \* "Visual evidence is limited, so this attribution is tentative."
   ReasoningFallback |->
     <<"V","i","s","u","a","l"," ","e","v","i","d","e","n","c","e"," ","i","s"," ","l","i","m","i","t","e","d",","," ","s","o"," ","t","h","i","s"," ","a","t","t","r","i","b","u","t","i","o","n"," ","i","s"," ","t","e","n","t","a","t","i","v","e",".">>,
  \* "This painting appears to match the identified artist and period based on composition and style cues."
   SummaryFallback |->
     <<"T","h","i","s"," ","p","a","i","n","t","i","n","g"," ","a","p","p","e","a","r","s"," ","t","o"," ","m","a","t","c","h"," ","t","h","e"," ","i","d","e","n","t","i","f","i","e","d"," ","a","r","t","i","s","t"," ","a","n","d"," ","p","e","r","i","o","d"," ","b","a","s","e","d"," ","o","n"," ","c","o","m","p","o","s","i","t","i","o","n"," ","a","n","d"," ","s","t","y","l","e"," ","c","u","e","s",".">>,
  \* "  "
   Blank |->
     <<" "," ">>,
  \* " Vincent van Gogh "
   VanGoghPadded |->
     <<" ","V","i","n","c","e","n","t"," ","v","a","n"," ","G","o","g","h"," ">>,
  \* "High"
   HighCaps |->
     <<"H","i","g","h">>,
  \* "medium "
   MediumPadded |->
     <<"m","e","d","i","u","m"," ">>,
  \* "certain"
   Certain |->
     <<"c","e","r","t","a","i","n">>,
  \* "A night sky over a village."
   SummaryA |->
     <<"A"," ","n","i","g","h","t"," ","s","k","y"," ","o","v","e","r"," ","a"," ","v","i","l","l","a","g","e",".">>,
  \* "Swirls above a quiet town."
   SummaryB |->
     <<"S","w","i","r","l","s"," ","a","b","o","v","e"," ","a"," ","q","u","i","e","t"," ","t","o","w","n",".">>,
  \* "Oil painted in June 1889 at Saint-R{e-acute}my"
   Extract |->
     <<"O","i","l"," ","p","a","i","n","t","e","d"," ","i","n"," ","J","u","n","e"," ","1","8","8","9"," ","a","t"," ","S","a","i","n","t","-","R","{e-acute}","m","y">>,
  \* "Painted at Saint-R{e-acute}my in 1889"
   FactSaintRemy |->
     <<"P","a","i","n","t","e","d"," ","a","t"," ","S","a","i","n","t","-","R","{e-acute}","m","y"," ","i","n"," ","1","8","8","9">>,
  \* " painted at saint remy, in 1889! "
   FactSaintRemyDup |->
     <<" ","p","a","i","n","t","e","d"," ","a","t"," ","s","a","i","n","t"," ","r","e","m","y",","," ","i","n"," ","1","8","8","9","!"," ">>,
  \* "Painted in 1990 while in Arles"
   FactArles1990 |->
     <<"P","a","i","n","t","e","d"," ","i","n"," ","1","9","9","0"," ","w","h","i","l","e"," ","i","n"," ","A","r","l","e","s">>,
  \* "The Starry Night dates from 1990"
   FactTitle1990 |->
     <<"T","h","e"," ","S","t","a","r","r","y"," ","N","i","g","h","t"," ","d","a","t","e","s"," ","f","r","o","m"," ","1","9","9","0">>,
  \* "Sold for many millions"
   FactAuction |->
     <<"S","o","l","d"," ","f","o","r"," ","m","a","n","y"," ","m","i","l","l","i","o","n","s">>,
  \* "In 1889."
   FactShort |->
     <<"I","n"," ","1","8","8","9",".">>,
  \* "The Starry Night in 2150"
   FactTitle2150 |->
     <<"T","h","e"," ","S","t","a","r","r","y"," ","N","i","g","h","t"," ","i","n"," ","2","1","5","0">>,
  \* "  Vincent van Gogh painted it. "
   FactPadded |->
     <<" "," ","V","i","n","c","e","n","t"," ","v","a","n"," ","G","o","g","h"," ","p","a","i","n","t","e","d"," ","i","t","."," ">>,
  \* "It was painted in June. Sold for millions!  Vincent van Gogh made it."
   AddonGood |->
     <<"I","t"," ","w","a","s"," ","p","a","i","n","t","e","d"," ","i","n"," ","J","u","n","e","."," ","S","o","l","d"," ","f","o","r"," ","m","i","l","l","i","o","n","s","!"," "," ","V","i","n","c","e","n","t"," ","v","a","n"," ","G","o","g","h"," ","m","a","d","e"," ","i","t",".">>,
  \* "The Starry Night dates from 1990. Oil on canvas, 1889."
   AddonYear |->
     <<"T","h","e"," ","S","t","a","r","r","y"," ","N","i","g","h","t"," ","d","a","t","e","s"," ","f","r","o","m"," ","1","9","9","0","."," ","O","i","l"," ","o","n"," ","c","a","n","v","a","s",","," ","1","8","8","9",".">>,
  \* "Night upon night pale moon rose over town"
   FactNightTwice |->
     <<"N","i","g","h","t"," ","u","p","o","n"," ","n","i","g","h","t"," ","p","a","l","e"," ","m","o","o","n"," ","r","o","s","e"," ","o","v","e","r"," ","t","o","w","n">>,
  \* "high"
   High |->
     <<"h","i","g","h">>,
  \* "medium"
   Medium |->
     <<"m","e","d","i","u","m">>,
  \* "low"
   Low |->
     <<"l","o","w">>]

(***************************************************************************)
(* The state of the endpoint.                                              *)
(*   now            the clock Date.now() reads                             *)
(*   mode           FACTCHECK_MODE, parsed once when the module loads      *)
(*   factCheckCache the process-wide Map: key -> [expiresAt, value]        *)
(*   req            the POST handlers in progress, one record each         *)
(*   vInput,vResult the arguments of direct calls of validateAndMerge and  *)
(*                  the results they returned, in the order of the calls;  *)
(*                  for direct calls of fetchEvidenceBundle, what the      *)
(*                  providers answer and the deployment's environment      *)
(***************************************************************************)
VARIABLES now, mode, factCheckCache, req, vInput, vResult

vars == <<now, mode, factCheckCache, req, vInput, vResult>>

(***************************************************************************)
(* app/api/recognize/route.ts: configuration, sanitizers, error            *)
(* normalisation and the cache.                                            *)
(***************************************************************************)
MAX_RETRY_ATTEMPTS == 2

FactCheckModes == {"off", "shadow", "enrich"}

\* parseFactCheckMode: anything but the three modes is "shadow".
parseFactCheckMode(value) == IF value \in FactCheckModes THEN value ELSE "shadow"

\* The environment knobs, at their defaults.  The two call timeouts are read
\* from the environment where a deployment is given with the calls
\* (Number(process.env.X || default): a variable set to 0 stays 0 here and
\* is replaced by asPositiveInt).
FACTCHECK_BUDGET_MS == 1800
FACTCHECK_PROVIDER_TIMEOUT_MS ==
  IF "env" \in DOMAIN vInput THEN vInput.env.FACTCHECK_PROVIDER_TIMEOUT_MS ELSE 800
FACTCHECK_CLAUDE_TIMEOUT_MS ==
  IF "env" \in DOMAIN vInput THEN vInput.env.FACTCHECK_CLAUDE_TIMEOUT_MS ELSE 1200
FACTCHECK_MAX_FACTS == 3
FACTCHECK_RESPONSE_BUFFER_MS == 200
FACTCHECK_CACHE_TTL_MS == 6 * 60 * 60 * 1000

asPositiveInt(value, fallback) == IF value <= 0 THEN fallback ELSE value

normalizedFactCheckBudgetMs == asPositiveInt(FACTCHECK_BUDGET_MS, 1800)
normalizedProviderTimeoutMs == asPositiveInt(FACTCHECK_PROVIDER_TIMEOUT_MS, 800)
normalizedFactCheckClaudeTimeoutMs == asPositiveInt(FACTCHECK_CLAUDE_TIMEOUT_MS, 1200)
normalizedFactCheckMaxFacts ==
  Min(Max(asPositiveInt(FACTCHECK_MAX_FACTS, 3), 1), 5)
normalizedFactCheckResponseBufferMs == asPositiveInt(FACTCHECK_RESPONSE_BUFFER_MS, 200)
normalizedFactCheckCacheTtlMs ==
  asPositiveInt(FACTCHECK_CACHE_TTL_MS, 6 * 60 * 60 * 1000)

\* asText: a trimmed string, or the sentinel for a non-string or blank value.
\* A raw value is None (missing or not a string) or Some(text).
asText(value) ==
  IF value = None THEN Text.Unknown
  ELSE IF Len(Trim(value[1])) > 0 THEN Trim(value[1]) ELSE Text.Unknown

asNarrativeText(value, fallback) ==
  IF value = None THEN fallback
  ELSE IF Len(Trim(value[1])) > 0 THEN Trim(value[1]) ELSE fallback

asConfidence(value) ==
  IF value = None THEN "low"
  ELSE LET normalized == ToLowerCase(Trim(value[1]))
       IN  IF normalized = Text.High THEN "high"
           ELSE IF normalized = Text.Medium THEN "medium"
           ELSE IF normalized = Text.Low THEN "low"
           ELSE "low"

\* sanitizeResponse of a parsed JSON object (the null result for a
\* non-object is decided by the caller from the output's shape).
sanitizeResponse(raw) ==
  [painting |-> asText(raw.painting),
   artist |-> asText(raw.artist),
   year |-> asText(raw.year),
   museum |-> asText(raw.museum),
   style |-> asText(raw.style),
   confidence |-> asConfidence(raw.confidence),
   reasoning |-> asNarrativeText(raw.reasoning, Text.ReasoningFallback),
   summary |-> asNarrativeText(raw.summary, Text.SummaryFallback)]

NormalizedError(code, status, retryable) ==
  [code |-> code, status |-> status, retryable |-> retryable]

\* normalizeError of a thrown value [type, status, billing]: type is the
\* error's class, status the API status, billing whether the message matches
\* isBillingIssue.
normalizeError(error) ==
  IF error.type = "AbortError" THEN NormalizedError("timeout", 504, TRUE)
  ELSE IF error.type = "APIError"
       THEN IF error.billing THEN NormalizedError("billing", 402, FALSE)
            ELSE IF error.status = 429 \/ error.status >= 500
                 THEN NormalizedError("upstream_error", 502, TRUE)
            ELSE NormalizedError("bad_request", 400, FALSE)
  ELSE IF error.type = "TypeError" THEN NormalizedError("network", 502, TRUE)
  ELSE NormalizedError("upstream_error", 502, FALSE)

createAnalysisFailureError(retryable) == NormalizedError("upstream_error", 502, retryable)

makeFactCheckMeta(status, latencyMs) ==
  [status |-> status, verifiedFacts |-> 0, sources |-> <<>>, latencyMs |-> latencyMs]

\* A plausible slip: the sentinel is compared without trimming and
\* lower-casing.
isUnknownValueExact(value) == value = Text.Unknown

isUnknownValue(value) == ToLowerCase(Trim(value)) = Text.Unknown

\* A plausible slip: the retry decision forgets the low-confidence case.
shouldRunRetryPassUnknownOnly(result) ==
  isUnknownValue(result.painting) \/ isUnknownValue(result.artist)

shouldRunRetryPass(result) ==
  \/ result.confidence = "low"
  \/ isUnknownValue(result.painting)
  \/ isUnknownValue(result.artist)

\* A plausible slip: the confidence is not consulted.
shouldRunFactCheckIgnoringConfidence(FACTCHECK_MODE, result) ==
  /\ FACTCHECK_MODE # "off"
  /\ ~ isUnknownValue(result.painting)
  /\ ~ isUnknownValue(result.artist)

\* A plausible slip: the mode is not consulted.
shouldRunFactCheckIgnoringMode(FACTCHECK_MODE, result) ==
  /\ result.confidence # "low"
  /\ ~ isUnknownValue(result.painting)
  /\ ~ isUnknownValue(result.artist)

shouldRunFactCheckForCoreResult(FACTCHECK_MODE, result) ==
  /\ FACTCHECK_MODE # "off"
  /\ result.confidence # "low"
  /\ ~ isUnknownValue(result.painting)
  /\ ~ isUnknownValue(result.artist)

\* sanitizeFactsDraft of a parsed object with a facts array of strings and a
\* summaryAddon string.
sanitizeFactsDraft(raw) ==
  LET Draft(facts, summaryAddon) ==
        IF Len(facts) = 0 /\ Len(summaryAddon) = 0
        THEN [isNull |-> TRUE, facts |-> <<>>, summaryAddon |-> <<>>]
        ELSE [isNull |-> FALSE, facts |-> facts, summaryAddon |-> summaryAddon]
  IN  Draft(SliceTo(SelectSeq(TrimAll(raw.facts), NonEmptyText),
                    normalizedFactCheckMaxFacts + 1),
            Trim(raw.summaryAddon))

CacheKeyKeepChars ==
  LowerLatin \cup DigitChars \cup LowerCyrillic \cup {"|", " "}

normalizeCacheKey(painting, artist) ==
  Trim(CollapseWhitespace(KeepOnly(ToLowerCase(painting \o <<"|">> \o artist),
                                   CacheKeyKeepChars)))

\* A plausible slip: an entry is still served at the instant it expires.
getFactCheckCacheValueLateExpiry(cache, key, t) ==
  IF key \notin DOMAIN cache THEN [hit |-> None, cache |-> cache]
  ELSE IF cache[key].expiresAt < t
       THEN [hit |-> None, cache |-> [k \in DOMAIN cache \ {key} |-> cache[k]]]
  ELSE [hit |-> Some(cache[key].value), cache |-> cache]

\* A plausible slip: the delete comes before the expiry test, so every lookup
\* that finds an entry removes it.
getFactCheckCacheValueDeletingFirst(cache, key, t) ==
  IF key \notin DOMAIN cache THEN [hit |-> None, cache |-> cache]
  ELSE [hit |-> IF cache[key].expiresAt <= t THEN None ELSE Some(cache[key].value),
        cache |-> [k \in DOMAIN cache \ {key} |-> cache[k]]]

\* getFactCheckCacheValue at time t: the value found (None for a miss) and
\* the cache afterwards (an expired entry is deleted by the lookup).
getFactCheckCacheValue(cache, key, t) ==
  IF key \notin DOMAIN cache THEN [hit |-> None, cache |-> cache]
  ELSE IF cache[key].expiresAt <= t
       THEN [hit |-> None, cache |-> [k \in DOMAIN cache \ {key} |-> cache[k]]]
  ELSE [hit |-> Some(cache[key].value), cache |-> cache]

setFactCheckCacheValue(cache, key, value, t) ==
  IF key = <<>> THEN cache
  ELSE [k \in DOMAIN cache \cup {key} |->
          IF k = key
          THEN [expiresAt |-> t + normalizedFactCheckCacheTtlMs, value |-> value]
          ELSE cache[k]]

(***************************************************************************)
(* The environment: what the identification model, the knowledge           *)
(* providers and the facts-draft call can answer.                          *)
(***************************************************************************)
MaxRequests == 2
StepMs == 1400
MaxTime == 2800

Req == 1..MaxRequests

\* The time one awaited call can take.
Steps == {0, StepMs}

RawAttribution(painting, artist, year, confidence, reasoning, summary) ==
  [painting |-> painting, artist |-> artist, year |-> year,
   museum |-> Some(Text.MoMA), style |-> Some(Text.Style),
   confidence |-> confidence, reasoning |-> reasoning, summary |-> summary]

\* JSON objects the identification model can answer with: a confident
\* attribution with padded and capitalised fields, one without a year, one
\* whose confidence is no known word, one without a painting, and one that
\* resolves nothing.
RawAttributions ==
  {RawAttribution(Some(Text.StarryNight), Some(Text.VanGoghPadded), Some(Text.Year1889),
                  Some(Text.HighCaps), Some(Text.Reasoning), Some(Text.SummaryA)),
   RawAttribution(Some(Text.StarryNight), Some(Text.VanGogh), None,
                  Some(Text.MediumPadded), Some(Text.Reasoning), Some(Text.SummaryB)),
   RawAttribution(Some(Text.StarryNight), Some(Text.VanGogh), Some(Text.Year1889),
                  Some(Text.Certain), Some(Text.Reasoning), Some(Text.SummaryA)),
   RawAttribution(None, Some(Text.VanGogh), Some(Text.Year1889),
                  Some(Text.HighCaps), Some(Text.Reasoning), Some(Text.SummaryA)),
   RawAttribution(Some(Text.UnknownCaps), Some(Text.Blank), None,
                  None, None, Some(Text.Blank))}

\* The raw value of an outcome that carries no JSON object.
NoRaw == RawAttribution(None, None, None, None, None, None)

ThrownError(type, status, billing) == [type |-> type, status |-> status, billing |-> billing]

\* Values anthropic.messages.create can throw.  An AbortError is thrown only
\* when the call's timer has fired.
ThrownErrors ==
  {ThrownError("AbortError", 0, FALSE),
   ThrownError("APIError", 429, FALSE),
   ThrownError("APIError", 429, TRUE),
   ThrownError("APIError", 500, FALSE),
   ThrownError("APIError", 400, FALSE),
   ThrownError("TypeError", 0, FALSE),
   ThrownError("Error", 0, FALSE)}

NoError == ThrownError("none", 0, FALSE)

\* The outcome of one model call: a thrown error, or a text whose shape is
\* "missing_json" (extractJson finds nothing), "invalid_json" (JSON.parse
\* throws), "invalid_payload_shape" (not an object) or "object".
ModelOutcome(kind, shape, raw, error) ==
  [kind |-> kind, shape |-> shape, raw |-> raw, error |-> error]

ModelOutcomes ==
  {ModelOutcome("text", "object", raw, NoError) : raw \in RawAttributions}
    \cup {ModelOutcome("text", shape, NoRaw, NoError) :
            shape \in {"missing_json", "invalid_json", "invalid_payload_shape"}}
    \cup {ModelOutcome("throw", "none", NoRaw, e) : e \in ThrownErrors}

WikiNone == ProviderOutput("Wikimedia", "primary", 0, <<>>)
WikiFull ==
  ProviderOutput("Wikimedia", "primary", 300,
    <<EvidenceRecord("painting", Text.StarryNight, "Wikimedia", "high"),
      EvidenceRecord("summary", Text.Extract, "Wikimedia", "medium"),
      EvidenceRecord("artist", Text.VanGogh, "Wikimedia", "high"),
      EvidenceRecord("year", Text.Year1889, "Wikimedia", "high")>>)
AicNone == ProviderOutput("Art Institute of Chicago", "secondary", 0, <<>>)
AicHit ==
  ProviderOutput("Art Institute of Chicago", "secondary", 300,
    <<EvidenceRecord("painting", Text.StarryNight, "Art Institute of Chicago", "medium"),
      EvidenceRecord("year", Text.Circa1889, "Art Institute of Chicago", "low"),
      EvidenceRecord("museum", Text.AIC, "Art Institute of Chicago", "low")>>)
CmaNone == ProviderOutput("Cleveland Museum of Art", "secondary", 0, <<>>)

\* What a provider call can end in: an output, or an exception ("throw").
WikimediaOutputs == {WikiNone, WikiFull}
AicOutputs == {AicNone, AicHit}
CmaOutputs == {CmaNone}

ProviderThrows == [threw |-> TRUE, output |-> WikiNone]
ProviderReturns(output) == [threw |-> FALSE, output |-> output]

FactPool ==
  {Text.FactSaintRemy, Text.FactSaintRemyDup, Text.FactArles1990, Text.FactTitle1990,
   Text.FactAuction, Text.FactShort, Text.FactTitle2150}
\* The last addon has four sentences: "MoMA! Sold for many millions. The
\* Starry Night. Vincent van Gogh."
AddonPool ==
  {<<>>, Text.AddonGood, Text.AddonYear,
   Text.MoMA \o <<"!", " ">> \o Text.FactAuction \o <<".", " ">>
     \o Text.StarryNight \o <<".", " ">> \o Text.VanGogh \o <<".">>}

SeqsUpTo(S, n) == UNION {[1..k -> S] : k \in 0..n}

\* draft: FactsDraft | null
NullDraft == [isNull |-> TRUE, facts |-> <<>>, summaryAddon |-> <<>>]

\* Parsed answers of the facts-draft call, before sanitizeFactsDraft.
RawDrafts ==
  {[facts |-> <<Text.FactPadded, Text.FactSaintRemy, Text.FactSaintRemyDup, Text.FactArles1990, Text.FactAuction>>,
    summaryAddon |-> Text.AddonGood],
   [facts |-> <<Text.FactTitle1990, Text.Blank>>, summaryAddon |-> Text.AddonYear],
   [facts |-> <<>>, summaryAddon |-> Text.Blank]}

\* Values of the FACTCHECK_MODE environment variable.
ModeSettings == {"off", "shadow", "enrich", "", "on"}

ZeroCalls ==
  [provider |-> 0, draft |-> 0, cacheReads |-> 0, cacheWrites |-> 0, validate |-> 0]

\* A handler that has not been invoked yet.  pc is the await the handler is
\* suspended at ("pass", "phaseA", "phaseB", "draft") or "done"; path names
\* the return statement that produced the response.
IdleRequest ==
  [pc |-> "idle", path |-> "none", pass |-> "none", attempt |-> 0,
   lastError |-> None, passError |-> None, primary |-> None, retry |-> "none",
   finalPayload |-> None, factCheckStartedAt |-> 0, evidenceStartedAt |-> 0,
   phaseAResult |-> None, perSecondaryTimeout |-> 0, evidence |-> None,
   draftTimeoutMs |-> 0, response |-> None, calls |-> ZeroCalls,
   inboundHeader |-> None, requestId |-> <<>>, body |-> "none", apiKey |-> "none"]

\* createErrorResponse and createSuccessResponse: the status, the body (code,
\* payload, requestId) and the x-request-id header.
createErrorResponse(requestId, status, code) ==
  [status |-> status, code |-> code, payload |-> None,
   requestId |-> requestId, xRequestId |-> requestId]

createSuccessResponse(requestId, payload) ==
  [status |-> 200, code |-> "ok", payload |-> Some(payload),
   requestId |-> requestId, xRequestId |-> requestId]

\* A plausible slip: the payload is rebuilt field by field and the reasoning
\* is not carried over.
SuccessPayloadWithoutReasoning(finalPayload, summary, facts, factCheck) ==
  [painting |-> finalPayload.painting, artist |-> finalPayload.artist,
   year |-> finalPayload.year, museum |-> finalPayload.museum,
   style |-> finalPayload.style, confidence |-> finalPayload.confidence,
   reasoning |-> Text.ReasoningFallback,
   summary |-> summary, facts |-> facts, factCheck |-> factCheck]

\* { ...finalPayload, summary, facts, factCheck }
SuccessPayload(finalPayload, summary, facts, factCheck) ==
  [painting |-> finalPayload.painting, artist |-> finalPayload.artist,
   year |-> finalPayload.year, museum |-> finalPayload.museum,
   style |-> finalPayload.style, confidence |-> finalPayload.confidence,
   reasoning |-> finalPayload.reasoning,
   summary |-> summary, facts |-> facts, factCheck |-> factCheck]

\* const factCheckInput: FactCheckInput = { ... }
FactCheckInput(finalPayload) ==
  [painting |-> finalPayload.painting, artist |-> finalPayload.artist,
   year |-> finalPayload.year, museum |-> finalPayload.museum,
   style |-> finalPayload.style, summary |-> finalPayload.summary,
   confidence |-> finalPayload.confidence]

Finish(st, path, response) ==
  [st EXCEPT !.pc = "done", !.path = path, !.response = Some(response)]

Count(st, what) == [st EXCEPT !.calls[what] = @ + 1]

\* A plausible slip: the verified content is never applied.
factCheckAppliedNever(FACTCHECK_MODE) == FACTCHECK_MODE = "on"

\* A plausible slip: the verified content is applied in every mode that runs
\* the evidence stage.
factCheckAppliedUnlessOff(FACTCHECK_MODE) == FACTCHECK_MODE # "off"

\* const applied = FACTCHECK_MODE === "enrich"
factCheckApplied(FACTCHECK_MODE) == FACTCHECK_MODE = "enrich"

\* A plausible slip: one unknown field is enough for the hard failure.
isUnresolvedEither(finalPayload) ==
  isUnknownValue(finalPayload.painting) \/ isUnknownValue(finalPayload.artist)

\* A plausible slip: the unknown check compares with the sentinel as
\* spelled.
isUnresolvedAsSpelled(finalPayload) ==
  finalPayload.painting = Text.Unknown /\ finalPayload.artist = Text.Unknown

\* The unknown check after the passes.
isUnresolved(finalPayload) ==
  isUnknownValue(finalPayload.painting) /\ isUnknownValue(finalPayload.artist)

\* The draft gate of the handler.
remainingMsForDraftOf(elapsedMs) ==
  Max(0, normalizedFactCheckBudgetMs - elapsedMs - normalizedFactCheckResponseBufferMs)

shouldDraft(FACTCHECK_MODE, evidence, elapsedMs) ==
  /\ evidence.primaryCoverageScore >= 2
  /\ remainingMsForDraftOf(elapsedMs) >= 260
  /\ FACTCHECK_MODE # "off"

\* The handler from validateAndMerge to its return: merge, build the
\* response, write the cache.
ValidateAndRespond(st, draft, FACTCHECK_MODE, cache, t) ==
  LET finalPayload == st.finalPayload[1]
      evidence == st.evidence[1]
      factCheckLatencyMs == t - st.factCheckStartedAt
      timedOut == evidence.timedOut \/ factCheckLatencyMs > normalizedFactCheckBudgetMs
      Respond(merged) ==
        [st |-> Finish(Count(Count(st, "validate"), "cacheWrites"), "validate_merge",
                       createSuccessResponse(st.requestId,
                         IF factCheckApplied(FACTCHECK_MODE)
                         THEN SuccessPayload(finalPayload, merged.summary, merged.facts,
                                             merged.factCheck)
                         ELSE SuccessPayload(finalPayload, finalPayload.summary, <<>>,
                                             merged.factCheck))),
         cache |-> setFactCheckCacheValue(
                     cache, normalizeCacheKey(finalPayload.painting, finalPayload.artist),
                     [summary |-> merged.summary, facts |-> merged.facts,
                      factCheck |-> merged.factCheck], t)]
  IN  Respond(validateAndMerge(FactCheckInput(finalPayload), draft, evidence,
                               normalizedFactCheckMaxFacts, factCheckLatencyMs, timedOut))

\* The handler from the return of fetchEvidenceBundle: the early budget
\* return, the draft gate, and (without a draft) validate-merge.
AfterEvidence(st0, evidence, FACTCHECK_MODE, cache, t) ==
  LET st == [st0 EXCEPT !.evidence = Some(evidence)]
      finalPayload == st.finalPayload[1]
      elapsedMs == t - st.factCheckStartedAt
  IN  IF elapsedMs >= normalizedFactCheckBudgetMs
      THEN [st |-> Finish(st, "early_timeout",
                          createSuccessResponse(st.requestId,
                            SuccessPayload(finalPayload, finalPayload.summary, <<>>,
                                           makeFactCheckMeta("skipped_timeout", elapsedMs)))),
            cache |-> cache]
      ELSE IF shouldDraft(FACTCHECK_MODE, evidence, elapsedMs)
           THEN [st |-> [Count(st, "draft") EXCEPT
                           !.pc = "draft",
                           !.draftTimeoutMs =
                             Max(200,
                                 Min(normalizedFactCheckClaudeTimeoutMs,
                                     remainingMsForDraftOf(elapsedMs)))],
                 cache |-> cache]
      ELSE ValidateAndRespond(st, NullDraft, FACTCHECK_MODE, cache, t)

\* The handler from the unknown check to the call of fetchEvidenceBundle.
AfterPasses(st, FACTCHECK_MODE, cache, t) ==
  LET finalPayload == st.finalPayload[1]
      read == [Count(st, "cacheReads") EXCEPT !.factCheckStartedAt = t]
      \* primaryResult and retryResult are dead once fetchEvidenceBundle is
      \* called.
      fetching == [Count(read, "provider") EXCEPT
                     !.pc = "phaseA", !.evidenceStartedAt = t, !.pass = "none",
                     !.primary = None, !.retry = "none"]
      FromCache(cacheHit) ==
        IF factCheckApplied(FACTCHECK_MODE)
        THEN SuccessPayload(finalPayload, cacheHit.summary, cacheHit.facts,
                            [cacheHit.factCheck EXCEPT !.latencyMs = 0])
        ELSE SuccessPayload(finalPayload, finalPayload.summary, <<>>,
                            [cacheHit.factCheck EXCEPT !.latencyMs = 0])
      Looked(lookup) ==
        IF lookup.hit # None
        THEN [st |-> Finish(read, "cache_hit",
                            createSuccessResponse(st.requestId, FromCache(lookup.hit[1]))),
              cache |-> lookup.cache]
        ELSE [st |-> fetching, cache |-> lookup.cache]
  IN  IF isUnresolved(finalPayload)
      THEN [st |-> Finish(st, "unknown",
                          createErrorResponse(st.requestId, 502, "upstream_error")),
            cache |-> cache]
      ELSE IF ~ shouldRunFactCheckForCoreResult(FACTCHECK_MODE, finalPayload)
           THEN [st |-> Finish([st EXCEPT !.factCheckStartedAt = t], "skip",
                               createSuccessResponse(st.requestId,
                                 SuccessPayload(finalPayload, finalPayload.summary, <<>>,
                                                makeFactCheckMeta("skipped_no_evidence", 0)))),
                 cache |-> cache]
      ELSE Looked(getFactCheckCacheValue(
                    cache, normalizeCacheKey(finalPayload.painting, finalPayload.artist), t))

(***************************************************************************)
(* The handler's steps.  One action is one resumption of the handler: from *)
(* the completion of the call it awaits up to the next await or return.    *)
(***************************************************************************)
TimeOk(d) == (now % FACTCHECK_CACHE_TTL_MS) + d <= MaxTime

\* Request bodies and credentials a caller and the deployment can present.
Bodies == {"data_url", "missing", "not_a_data_url"}
ApiKeys == {"set", "missing", "sk-ant-your-key-here"}

\* A stand-in for randomUUID(): an id of its own for every request.
randomUUID(r) ==
  <<"u", "u", "i", "d", "-", <<"0", "1", "2", "3", "4", "5", "6", "7", "8", "9">>[r + 1]>>

\* A plausible slip: the length limit is applied to the trimmed header.
createRequestIdTrimmedLength(fromHeader, uuid) ==
  IF fromHeader # None /\ Len(Trim(fromHeader[1])) > 0 /\ Len(Trim(fromHeader[1])) <= 120
  THEN Trim(fromHeader[1])
  ELSE uuid

\* createRequestId: the trimmed x-request-id header of the request if there
\* is one, it is not blank and it has at most 120 characters, else uuid.
createRequestId(fromHeader, uuid) ==
  IF fromHeader # None /\ Len(Trim(fromHeader[1])) > 0 /\ Len(fromHeader[1]) <= 120
  THEN Trim(fromHeader[1])
  ELSE uuid

\* A plausible slip: only an absent key is rejected, the placeholder of the
\* deployment template is taken for a key.
ReceiveAcceptsPlaceholderKey(r, body, apiKey, fromHeader) ==
  LET requestId == createRequestId(fromHeader, randomUUID(r))
      received == [req[r] EXCEPT !.inboundHeader = fromHeader, !.requestId = requestId,
                                 !.body = body, !.apiKey = apiKey]
  IN  /\ req[r].pc = "idle"
      /\ \A q \in Req : q < r => req[q].pc # "idle"
      /\ req' = [req EXCEPT ![r] =
           IF body # "data_url"
           THEN Finish(received, "validation_failed",
                       createErrorResponse(requestId, 400, "bad_request"))
           ELSE IF apiKey = "missing"
                THEN Finish(received, "validation_failed",
                            createErrorResponse(requestId, 500, "misconfigured_env"))
           ELSE [received EXCEPT !.pc = "pass", !.pass = "primary", !.attempt = 1]]
      /\ UNCHANGED <<now, mode, factCheckCache, vInput, vResult>>

\* POST, from its entry to the first model call of the primary pass.
\* fromHeader is the inbound x-request-id header, None when there is none.
Receive(r, body, apiKey, fromHeader) ==
  LET requestId == createRequestId(fromHeader, randomUUID(r))
      received == [req[r] EXCEPT !.inboundHeader = fromHeader, !.requestId = requestId,
                                 !.body = body, !.apiKey = apiKey]
  IN  /\ req[r].pc = "idle"
      /\ \A q \in Req : q < r => req[q].pc # "idle"
      /\ req' = [req EXCEPT ![r] =
           IF body # "data_url"
           THEN Finish(received, "validation_failed",
                       createErrorResponse(requestId, 400, "bad_request"))
           ELSE IF apiKey # "set"
                THEN Finish(received, "validation_failed",
                            createErrorResponse(requestId, 500, "misconfigured_env"))
           ELSE [received EXCEPT !.pc = "pass", !.pass = "primary", !.attempt = 1]]
      /\ UNCHANGED <<now, mode, factCheckCache, vInput, vResult>>

\* The PassResult of an attempt that ends its pass.
PassOk(payload) == [ok |-> TRUE, payload |-> Some(payload), error |-> None]
PassFailed(error) == [ok |-> FALSE, payload |-> None, error |-> Some(error)]

\* A plausible slip: a failed second pass is answered like a failed first
\* pass, with the error of the pass.
PassReturnedRetryFatal(st0, result, FACTCHECK_MODE, cache, t) ==
  LET st == [st0 EXCEPT !.attempt = 0, !.lastError = None, !.passError = result.error]
  IN  IF ~ result.ok
      THEN [st |-> Finish(IF st.pass = "retry" THEN [st EXCEPT !.retry = "failed"] ELSE st,
                          "primary_failed",
                          createErrorResponse(st.requestId, result.error[1].status,
                                              result.error[1].code)),
            cache |-> cache]
      ELSE IF st.pass = "primary" /\ shouldRunRetryPass(result.payload[1])
           THEN [st |-> [st EXCEPT
                           !.primary = result.payload,
                           !.finalPayload = result.payload,
                           !.pass = "retry", !.attempt = 1],
                 cache |-> cache]
      ELSE AfterPasses(IF st.pass = "primary"
                       THEN [st EXCEPT !.primary = result.payload,
                                       !.finalPayload = result.payload]
                       ELSE [st EXCEPT !.retry = "ok", !.finalPayload = result.payload],
                       FACTCHECK_MODE, cache, t)

\* A plausible slip: with fact-checking off the handler settles for the
\* first pass.
PassReturnedSinglePassWhenOff(st0, result, FACTCHECK_MODE, cache, t) ==
  LET st == [st0 EXCEPT !.attempt = 0, !.lastError = None, !.passError = result.error]
      passed ==
        IF st.pass = "primary"
        THEN [st EXCEPT !.primary = result.payload, !.finalPayload = result.payload]
        ELSE IF result.ok
             THEN [st EXCEPT !.retry = "ok", !.finalPayload = result.payload]
        ELSE [st EXCEPT !.retry = "failed"]
  IN  IF st.pass = "primary" /\ ~ result.ok
      THEN [st |-> Finish(st, "primary_failed",
                          createErrorResponse(st.requestId, result.error[1].status,
                                              result.error[1].code)),
            cache |-> cache]
      ELSE IF /\ st.pass = "primary" /\ FACTCHECK_MODE # "off"
              /\ shouldRunRetryPass(result.payload[1])
           THEN [st |-> [st EXCEPT
                           !.primary = result.payload,
                           !.finalPayload = result.payload,
                           !.pass = "retry", !.attempt = 1],
                 cache |-> cache]
      ELSE AfterPasses(passed, FACTCHECK_MODE, cache, t)

\* A plausible slip: a failed retry pass is run again.
PassReturnedRetryAgain(st0, result, FACTCHECK_MODE, cache, t) ==
  LET st == [st0 EXCEPT !.attempt = 0, !.lastError = None, !.passError = result.error]
      passed ==
        IF st.pass = "primary"
        THEN [st EXCEPT !.primary = result.payload, !.finalPayload = result.payload]
        ELSE [st EXCEPT !.retry = "ok", !.finalPayload = result.payload]
  IN  IF st.pass = "primary" /\ ~ result.ok
      THEN [st |-> Finish(st, "primary_failed",
                          createErrorResponse(st.requestId, result.error[1].status,
                                              result.error[1].code)),
            cache |-> cache]
      ELSE IF st.pass = "primary" /\ shouldRunRetryPass(result.payload[1])
           THEN [st |-> [st EXCEPT
                           !.primary = result.payload,
                           !.finalPayload = result.payload,
                           !.pass = "retry", !.attempt = 1],
                 cache |-> cache]
      ELSE IF st.pass = "retry" /\ ~ result.ok
           THEN [st |-> [st EXCEPT !.attempt = 1], cache |-> cache]
      ELSE AfterPasses(passed, FACTCHECK_MODE, cache, t)

\* The handler after runRecognitionPass has returned result: the locals of
\* the pass (attempt, lastError) are gone, the error of a failed pass is kept
\* in passError.
PassReturned(st0, result, FACTCHECK_MODE, cache, t) ==
  LET st == [st0 EXCEPT !.attempt = 0, !.lastError = None, !.passError = result.error]
      \* The handler's locals once the passes are over.
      passed ==
        IF st.pass = "primary"
        THEN [st EXCEPT !.primary = result.payload, !.finalPayload = result.payload]
        ELSE IF result.ok
             THEN [st EXCEPT !.retry = "ok", !.finalPayload = result.payload]
        ELSE [st EXCEPT !.retry = "failed"]
  IN  IF st.pass = "primary" /\ ~ result.ok
      THEN [st |-> Finish(st, "primary_failed",
                          createErrorResponse(st.requestId, result.error[1].status,
                                              result.error[1].code)),
            cache |-> cache]
      ELSE IF st.pass = "primary" /\ shouldRunRetryPass(result.payload[1])
           THEN [st |-> [st EXCEPT
                           !.primary = result.payload,
                           !.finalPayload = result.payload,
                           !.pass = "retry", !.attempt = 1],
                 cache |-> cache]
      ELSE AfterPasses(passed, FACTCHECK_MODE, cache, t)

\* The handler suspends or returns: its locals and the cache are stored.
Commit(r, next) ==
  /\ req' = [req EXCEPT ![r] = next.st]
  /\ factCheckCache' = next.cache

\* A plausible slip: an attempt that threw is repeated whatever the error.
attemptEndsPassIgnoringRetryable(attempt, parsed, threw, retryable) ==
  parsed \/ attempt = MAX_RETRY_ATTEMPTS

\* A plausible slip: a pass always makes both attempts.
attemptEndsPassOnLastOnly(attempt, parsed, threw, retryable) ==
  attempt = MAX_RETRY_ATTEMPTS

\* Whether an attempt of runRecognitionPass ends the pass: a sanitized
\* payload, the last attempt, or a thrown error that is not retryable.
attemptEndsPass(attempt, parsed, threw, retryable) ==
  \/ parsed
  \/ attempt = MAX_RETRY_ATTEMPTS
  \/ threw /\ ~ retryable

\* The handler from the completion of one attempt of runRecognitionPass with
\* outcome: the next attempt is started, or the pass returns.
AttemptReturned(st, outcome, FACTCHECK_MODE, cache, t) ==
  LET threw == outcome.kind = "throw"
      parsed == outcome.kind = "text" /\ outcome.shape = "object"
      lastError ==
        IF threw THEN normalizeError(outcome.error)
        ELSE createAnalysisFailureError(st.attempt < MAX_RETRY_ATTEMPTS)
      returns == attemptEndsPass(st.attempt, parsed, threw, lastError.retryable)
      result ==
        IF parsed THEN PassOk(sanitizeResponse(outcome.raw))
        ELSE IF threw THEN PassFailed(lastError)
        ELSE PassFailed(createAnalysisFailureError(FALSE))
      failed == [st EXCEPT !.lastError = Some(lastError)]
  IN  IF returns
      THEN PassReturned(st, result, FACTCHECK_MODE, cache, t)
      ELSE [st |-> [failed EXCEPT !.attempt = st.attempt + 1], cache |-> cache]

\* One attempt of runRecognitionPass completes with outcome.  The passes read
\* the clock for their logs only, so the model lets no time pass in them; an
\* AbortError is the outcome of a call whose timer has fired.
ModelReturn(r, outcome) ==
  /\ req[r].pc = "pass"
  /\ now' = now
  /\ Commit(r, AttemptReturned(req[r], outcome, mode, factCheckCache, now))
  /\ UNCHANGED <<mode, vInput, vResult>>

\* A plausible slip: one shared fallback, so that a secondary provider that
\* threw is reported under the primary provider's name and tier.
providerResultSharedFallback(outcome, name, tier) ==
  IF outcome.threw THEN providerErrorFallback("Wikimedia", "primary") ELSE outcome.output

\* What the orchestrator keeps of a provider call.
providerResult(outcome, name, tier) ==
  IF outcome.threw THEN providerErrorFallback(name, tier) ELSE outcome.output

ProviderOutcomes(outputs) == {ProviderThrows} \cup {ProviderReturns(o) : o \in outputs}

\* fetchWikimediaEvidence completes: Phase B is started or the bundle is
\* returned to the handler.
PhaseAReturn(r, outcome, d) ==
  LET st == req[r]
      t == now + d
      phaseAResult == providerResult(outcome, "Wikimedia", "primary")
      remainingMsAfterA ==
        hardStopAtOf(st.evidenceStartedAt, normalizedFactCheckBudgetMs,
                     normalizedFactCheckResponseBufferMs) - t
      bundle == EvidenceBundle(phaseAResult, <<>>, t - st.evidenceStartedAt,
                               t > deadlineAtOf(st.evidenceStartedAt,
                                                normalizedFactCheckBudgetMs))
  IN  /\ st.pc = "phaseA"
      /\ TimeOk(d)
      /\ now' = t
      /\ IF phaseBRuns(remainingMsAfterA)
         THEN Commit(r, [st |-> [Count(Count(st, "provider"), "provider") EXCEPT
                                  !.pc = "phaseB", !.phaseAResult = Some(phaseAResult),
                                  !.perSecondaryTimeout =
                                    perSecondaryTimeoutOf(normalizedProviderTimeoutMs,
                                                          remainingMsAfterA)],
                         cache |-> factCheckCache])
         ELSE Commit(r, AfterEvidence([st EXCEPT !.phaseAResult = Some(phaseAResult)],
                                      bundle, mode, factCheckCache, t))
      /\ UNCHANGED <<mode, vInput, vResult>>

\* Promise.all of the two secondary providers completes.
PhaseBReturn(r, aic, cma, d) ==
  LET st == req[r]
      t == now + d
      secondaryResults ==
        <<providerResult(aic, "Art Institute of Chicago", "secondary"),
          providerResult(cma, "Cleveland Museum of Art", "secondary")>>
      bundle == EvidenceBundle(st.phaseAResult[1], secondaryResults,
                               t - st.evidenceStartedAt,
                               t > deadlineAtOf(st.evidenceStartedAt,
                                                normalizedFactCheckBudgetMs))
  IN  /\ st.pc = "phaseB"
      /\ TimeOk(d)
      /\ now' = t
      /\ Commit(r, AfterEvidence(st, bundle, mode, factCheckCache, t))
      /\ UNCHANGED <<mode, vInput, vResult>>

\* What generateFactsDraftWithClaude can return: null (an error, a missing
\* JSON object, an empty draft) or a sanitized draft.
DraftOutcomes == {NullDraft} \cup {sanitizeFactsDraft(raw) : raw \in RawDrafts}

DraftReturn(r, draft, d) ==
  LET st == req[r]
  IN  /\ st.pc = "draft"
      /\ TimeOk(d)
      /\ now' = now + d
      /\ Commit(r, ValidateAndRespond(st, draft, mode, factCheckCache, now + d))
      /\ UNCHANGED <<mode, vInput, vResult>>

\* A plausible slip: the exception is not caught inside the evidence stage
\* and reaches the handler's outer catch.
FactCheckStageThrowsUncaught(r, d) ==
  LET st == req[r]
  IN  /\ st.pc \in {"phaseA", "phaseB", "draft"}
      /\ TimeOk(d)
      /\ now' = now + d
      /\ req' = [req EXCEPT ![r] =
           Finish(st, "stage_exception",
                  createErrorResponse(st.requestId, 500, "internal_error"))]
      /\ UNCHANGED <<mode, factCheckCache, vInput, vResult>>

\* An exception inside the handler's inner try block, raised when the
\* handler resumes: the catch clause answers with the recognition result.
FactCheckStageThrows(r, d) ==
  LET st == req[r]
      latencyMs == (now + d) - st.factCheckStartedAt
      status == IF latencyMs > normalizedFactCheckBudgetMs
                THEN "skipped_timeout" ELSE "skipped_no_evidence"
  IN  /\ st.pc \in {"phaseA", "phaseB", "draft"}
      /\ TimeOk(d)
      /\ now' = now + d
      /\ req' = [req EXCEPT ![r] =
           Finish(st, "stage_exception",
                  createSuccessResponse(st.requestId,
                    SuccessPayload(st.finalPayload[1], st.finalPayload[1].summary, <<>>,
                                   makeFactCheckMeta(status, latencyMs))))]
      /\ UNCHANGED <<mode, factCheckCache, vInput, vResult>>

\* A quiet period between two requests: the clock passes the time-to-live
\* of everything cached so far.
CacheTtlElapses ==
  /\ now < FACTCHECK_CACHE_TTL_MS
  /\ DOMAIN factCheckCache # {}
  /\ \A r \in Req : req[r].pc \in {"idle", "done"}
  /\ now' = now + FACTCHECK_CACHE_TTL_MS
  /\ UNCHANGED <<mode, factCheckCache, req, vInput, vResult>>

(***************************************************************************)
(* Direct calls of validateAndMerge.                                       *)
(***************************************************************************)
MaxDraftFacts == 2

\* Drafts of up to MaxDraftFacts facts, one long draft (six facts that name
\* the painting, a fact no evidence supports after the first and a
\* respelling of the first after the second) and a draft of one fact of
\* eight tokens that names no known value and repeats one word.
DraftPool ==
  LET About(t) == Text.StarryNight \o <<" ">> \o t
      Respelt(t) == <<" ">> \o ToLowerCase(t) \o <<"!">>
      LongDraft ==
        [isNull |-> FALSE,
         facts |-> <<About(Text.VanGogh), Text.FactAuction, About(Text.MoMA),
                     Respelt(About(Text.VanGogh)), About(Text.Style),
                     About(Text.Year1889), About(Text.AIC), About(Text.Extract)>>,
         summaryAddon |-> <<>>]
      RepeatingDraft ==
        [isNull |-> FALSE, facts |-> <<Text.FactNightTwice>>, summaryAddon |-> <<>>]
  IN  {NullDraft, LongDraft, RepeatingDraft}
        \cup [isNull : {FALSE}, facts : SeqsUpTo(FactPool, MaxDraftFacts),
              summaryAddon : AddonPool]

BasePool ==
  [painting : {Text.StarryNight}, artist : {Text.VanGogh}, year : {Text.Year1889, Text.Unknown},
   museum : {Text.MoMA}, style : {Text.Style}, summary : {Text.SummaryA},
   confidence : {"high"}]

EvidencePool ==
  {EvidenceBundle(w, s, 400, FALSE) :
     w \in WikimediaOutputs,
     s \in {<<>>, <<AicNone, CmaNone>>, <<AicHit, CmaNone>>}}

ValidatorInputs ==
  [base : BasePool, draft : DraftPool, evidence : EvidencePool,
   maxFacts : {0, 1, 3, 9}, timedOut : BOOLEAN]

\* Calls a caller makes with the same arguments.
MaxValidatorCalls == 2

\* Titles a search lists.
MaxTitles == 2

NoValidatorInput ==
  [base |-> CHOOSE b \in BasePool : b.year = Text.Year1889, draft |-> NullDraft,
   evidence |-> EvidenceBundle(WikiNone, <<>>, 400, FALSE),
   maxFacts |-> 1, timedOut |-> FALSE]

VInit ==
  /\ vInput \in ValidatorInputs
  /\ vResult = None
  /\ now = 0
  /\ mode = parseFactCheckMode("")
  /\ factCheckCache = <<>>
  /\ req = [r \in Req |-> IdleRequest]

\* A call that uses up the draft it was given (facts.splice in place of
\* facts.slice).
VCallConsumesDraft ==
  /\ Len(vResult) < MaxValidatorCalls
  /\ vResult' = Append(vResult,
                       validateAndMerge(vInput.base, vInput.draft, vInput.evidence,
                                        vInput.maxFacts, 400, vInput.timedOut))
  /\ vInput' = [vInput EXCEPT !.draft = NullDraft]
  /\ UNCHANGED <<now, mode, factCheckCache, req>>

\* A caller calls validateAndMerge with the arguments it holds and keeps the
\* results in the order of the calls.
VCall ==
  /\ Len(vResult) < MaxValidatorCalls
  /\ vResult' = Append(vResult,
                       validateAndMerge(vInput.base, vInput.draft, vInput.evidence,
                                        vInput.maxFacts, 400, vInput.timedOut))
  /\ UNCHANGED <<now, mode, factCheckCache, req, vInput>>

VNext == VCall

SpecValidator == VInit /\ [][VNext]_vars

(***************************************************************************)
(* Direct calls of fetchEvidenceBundle: one handler that has just called   *)
(* it, the outcome and the duration of every provider call drawn at the    *)
(* start.  The steps are the handler's own.                                *)
(***************************************************************************)
\* Durations of Phase A: none, a whole step, and the instants around the
\* latest end of Phase A that still lets Phase B run.
EvidenceDelays ==
  LET edge == hardStopAtOf(0, normalizedFactCheckBudgetMs,
                           normalizedFactCheckResponseBufferMs) - 220
  IN  {0, edge - 3, edge - 2, edge - 1, edge, edge + 1, StepMs}

EvidenceCalls ==
  [wiki : ProviderOutcomes(WikimediaOutputs),
   aic : ProviderOutcomes(AicOutputs),
   cma : ProviderOutcomes(CmaOutputs \cup
           {ProviderOutput("Cleveland Museum of Art", "secondary", 250,
              <<EvidenceRecord("style", Text.Style, "Cleveland Museum of Art", "low"),
                EvidenceRecord("museum", Text.MoMA, "Cleveland Museum of Art", "low")>>)}),
   dA : EvidenceDelays,
   \* Durations of Phase B: those of Phase A, and the instants around the
   \* latest return of the bundle that still leaves time for a draft.
   dB : EvidenceDelays \cup
          {normalizedFactCheckBudgetMs - normalizedFactCheckResponseBufferMs
             - 260 + k : k \in {-1, 0, 1}},
   \* Deployments: both timeouts unset or 0, both below the floors of the
   \* calls, both above the budget.
   env : {[FACTCHECK_PROVIDER_TIMEOUT_MS |-> ms, FACTCHECK_CLAUDE_TIMEOUT_MS |-> ms] :
            ms \in {0, 100, 2000}}]

EInit ==
  /\ vInput \in EvidenceCalls
  /\ vResult = None
  /\ now = 0
  /\ mode \in {"shadow", "enrich"}
  /\ factCheckCache = <<>>
  /\ \E raw \in RawAttributions :
       /\ shouldRunFactCheckForCoreResult(mode, sanitizeResponse(raw))
       /\ req = [r \in Req |->
                   IF r = 1
                   THEN AfterPasses([IdleRequest EXCEPT
                                       !.finalPayload = Some(sanitizeResponse(raw))],
                                    mode, factCheckCache, now).st
                   ELSE IdleRequest]

ENext ==
  \/ PhaseAReturn(1, vInput.wiki, vInput.dA)
  \/ PhaseBReturn(1, vInput.aic, vInput.cma, vInput.dB)

SpecEvidence == EInit /\ [][ENext]_vars

(***************************************************************************)
(* The endpoint.                                                           *)
(***************************************************************************)
Init ==
  /\ now = 0
  /\ mode \in {parseFactCheckMode(setting) : setting \in ModeSettings}
  /\ factCheckCache = <<>>
  /\ req = [r \in Req |-> IdleRequest]
  /\ vInput = NoValidatorInput
  /\ vResult = None

Next ==
  \/ \E r \in Req, body \in Bodies, apiKey \in ApiKeys : Receive(r, body, apiKey, None)
  \/ \E r \in Req, outcome \in ModelOutcomes : ModelReturn(r, outcome)
  \/ \E r \in Req, outcome \in ProviderOutcomes(WikimediaOutputs), d \in Steps :
       PhaseAReturn(r, outcome, d)
  \/ \E r \in Req, aic \in ProviderOutcomes(AicOutputs),
        cma \in ProviderOutcomes(CmaOutputs), d \in Steps :
       PhaseBReturn(r, aic, cma, d)
  \/ \E r \in Req, draft \in DraftOutcomes, d \in Steps : DraftReturn(r, draft, d)
  \/ \E r \in Req, d \in Steps : FactCheckStageThrows(r, d)
  \/ CacheTtlElapses

Spec == Init /\ [][Next]_vars

(***************************************************************************)
(* The endpoint serving one request that arrives with any x-request-id     *)
(* header: none, a blank one, a padded one, one of exactly 120 characters, *)
(* one of 121, and a padded one of 121 whose trimmed text is shorter.      *)
(***************************************************************************)
RNext ==
  \/ \E body \in Bodies, apiKey \in ApiKeys,
        fromHeader \in {None, Some(Text.Blank),
                        Some(<<" ", "r", "e", "q", "-", "7", " ">>),
                        Some([i \in 1..120 |-> "a"]), Some([i \in 1..121 |-> "a"]),
                        Some(<<" ">> \o [i \in 1..119 |-> "a"] \o <<" ">>)} :
       Receive(1, body, apiKey, fromHeader)
  \/ \E outcome \in ModelOutcomes : ModelReturn(1, outcome)
  \/ \E outcome \in ProviderOutcomes(WikimediaOutputs), d \in Steps :
       PhaseAReturn(1, outcome, d)
  \/ \E aic \in ProviderOutcomes(AicOutputs),
        cma \in ProviderOutcomes(CmaOutputs), d \in Steps :
       PhaseBReturn(1, aic, cma, d)
  \/ \E draft \in DraftOutcomes, d \in Steps : DraftReturn(1, draft, d)
  \/ \E d \in Steps : FactCheckStageThrows(1, d)

SpecRequestId == Init /\ [][RNext]_vars

\* The handler of request r, suspended at an await, is resumed: the awaited
\* call completes or is aborted by its timer, or the stage throws.
Resumes(r) ==
  \/ \E d \in Steps : FactCheckStageThrows(r, d)
  \/ \E outcome \in ModelOutcomes : ModelReturn(r, outcome)
  \/ \E outcome \in ProviderOutcomes(WikimediaOutputs), d \in Steps :
       PhaseAReturn(r, outcome, d)
  \/ \E aic \in ProviderOutcomes(AicOutputs),
        cma \in ProviderOutcomes(CmaOutputs), d \in Steps :
       PhaseBReturn(r, aic, cma, d)
  \/ \E draft \in DraftOutcomes, d \in Steps : DraftReturn(r, draft, d)

\* One request when every call its handler awaits completes or is aborted by
\* its timer: a suspended handler is eventually resumed.
SpecLive == Init /\ [][RNext]_vars /\ WF_vars(Resumes(1))

(***************************************************************************)
(* The outbound calls of one fetchEvidenceBundle run: the searches and the *)
(* page summaries of Phase A, query variant by query variant and language  *)
(* by language, the two Wikidata calls, and the two calls of Phase B.      *)
(* vInput holds the arguments of the run, vResult the locals of the run    *)
(* and the calls in flight; the run starts at time 0.                      *)
(***************************************************************************)
\* A plausible slip: the timeout of a call is the per-provider timeout
\* whatever is left before the deadline.
getRemainingMsUnclamped(deadlineAt, perProviderMs, t) == perProviderMs

getRemainingMs(deadlineAt, perProviderMs, t) ==
  LET remaining == deadlineAt - t
  IN  IF remaining <= 0 THEN 0 ELSE Max(0, Min(remaining, perProviderMs))

\* The call in flight and the time at which its timer aborts it.
fetchJsonWithTimeout(kind, language, timeoutMs, t) ==
  [kind |-> kind, language |-> language, issuedAt |-> t, abortAt |-> t + timeoutMs]

queryVariants(query) ==
  SelectSeq(<<Trim(JoinWith(SelectSeq(<<query.painting, query.artist>>, NonEmptyText),
                            <<" ">>)),
              Trim(query.painting),
              Trim(query.painting \o <<" ", "p", "a", "i", "n", "t", "i", "n", "g">>)>>,
            NonEmptyText)

phaseAStopAtOf(startedAt, budgetMs, responseBufferMs, phaseABudgetMs) ==
  Min(hardStopAtOf(startedAt, budgetMs, responseBufferMs),
      startedAt + Max(300, phaseABudgetMs))

WIKIMEDIA_LANGUAGES == <<"en", "ru">>

\* searchAndFetchSummary up to its first await: the search is sent, or the
\* attempt ends with null when less than 120 ms are left.
startSearch(run, language, t) ==
  LET timeoutMs == getRemainingMs(run.phaseAStopAt, vInput.providerTimeoutMs, t)
  IN  IF timeoutMs < 120
      THEN [run EXCEPT !.attempts[language] =
                         [stage |-> "settled", titles |-> 0, candidate |-> None]]
      ELSE [run EXCEPT !.attempts[language] =
                         [stage |-> "search", titles |-> 0, candidate |-> None],
                       !.calls = @ \cup {fetchJsonWithTimeout("search", language, timeoutMs, t)}]

\* The loop over the titles of searchAndFetchSummary, at its head with
\* `titles` titles not yet tried.
nextTitle(run, language, titles, t) ==
  LET summaryTimeoutMs == getRemainingMs(run.phaseAStopAt, vInput.providerTimeoutMs, t)
  IN  IF titles = 0 \/ summaryTimeoutMs < 120
      THEN [run EXCEPT !.attempts[language] =
                         [stage |-> "settled", titles |-> 0, candidate |-> None]]
      ELSE [run EXCEPT !.attempts[language] =
                         [stage |-> "summary", titles |-> titles - 1, candidate |-> None],
                       !.calls = @ \cup {fetchJsonWithTimeout("summary", language,
                                                              summaryTimeoutMs, t)}]

\* fetchEvidenceBundle after Phase A: both secondary providers are called
\* when more than 220 ms are left before the hard stop.
startPhaseB(run, t) ==
  LET remainingMsAfterA == run.hardStopAt - t
      perSecondaryTimeout == perSecondaryTimeoutOf(vInput.providerTimeoutMs, remainingMsAfterA)
      timeoutMs == getRemainingMs(run.hardStopAt, perSecondaryTimeout, t)
  IN  IF phaseBRuns(remainingMsAfterA) /\ timeoutMs >= 120
      THEN [run EXCEPT !.pc = "phaseB",
                       !.calls = {fetchJsonWithTimeout(kind, "none", timeoutMs, t) :
                                    kind \in {"aic", "cma"}}]
      ELSE [run EXCEPT !.pc = "done"]

\* fetchWikimediaEvidence after the loop over the variants: the Wikidata
\* entity of the best candidate is fetched when at least 220 ms are left.
afterVariants(run, t) ==
  LET timeoutMs == getRemainingMs(run.phaseAStopAt, vInput.providerTimeoutMs, t)
  IN  IF /\ run.bestCandidate # None
         /\ run.bestCandidate[1].summary.wikibase_item
         /\ timeoutMs >= 220
      THEN [run EXCEPT !.pc = "entities",
                       !.calls = {fetchJsonWithTimeout("entities", "none", timeoutMs, t)}]
      ELSE startPhaseB(run, t)

\* fetchEvidenceBundle is called and runs up to the first await of
\* fetchWikimediaEvidence: the searches of the first variant.  The arguments
\* are an attribution with or without a title and a creator, and budgets at
\* their defaults, below their floors and with a Phase A budget beyond the
\* hard stop.
PInit ==
  /\ vInput \in
       [query : [painting : {Text.StarryNight, <<>>}, artist : {Text.VanGogh, <<>>}],
        budget : {[budgetMs |-> 1800, responseBufferMs |-> 200, phaseABudgetMs |-> 900],
                  [budgetMs |-> 100, responseBufferMs |-> 10, phaseABudgetMs |-> 100],
                  [budgetMs |-> 1800, responseBufferMs |-> 200, phaseABudgetMs |-> 5000]},
        providerTimeoutMs : {800, 100}]
  /\ now = 0
  /\ LET run == [pc |-> "variants", variant |-> 1,
                 attempts |-> [language \in SeqToSet(WIKIMEDIA_LANGUAGES) |->
                                 [stage |-> "settled", titles |-> 0, candidate |-> None]],
                 calls |-> {}, bestCandidate |-> None,
                 hardStopAt |-> hardStopAtOf(0, vInput.budget.budgetMs,
                                             vInput.budget.responseBufferMs),
                 phaseAStopAt |-> phaseAStopAtOf(0, vInput.budget.budgetMs,
                                                 vInput.budget.responseBufferMs,
                                                 vInput.budget.phaseABudgetMs)]
     IN  vResult = startSearch(startSearch(run, WIKIMEDIA_LANGUAGES[1], 0),
                               WIKIMEDIA_LANGUAGES[2], 0)
  /\ mode = parseFactCheckMode("")
  /\ factCheckCache = <<>>
  /\ req = [r \in Req |-> IdleRequest]

\* Times at which a call in flight can settle: at once, at the instants
\* around the gates of the calls that follow, and when the first timer of a
\* call in flight fires.
SettleTimes ==
  {t \in {now}
           \cup {c.abortAt : c \in vResult.calls}
           \cup {vResult.phaseAStopAt - k : k \in {220, 219, 120, 119}}
           \cup {vResult.hardStopAt - k : k \in {221, 220}} :
     /\ t >= now
     /\ \A c \in vResult.calls : t <= c.abortAt}

\* The search of one language settles: it threw (the variant loop turns
\* the rejection into null) or it lists `titles` titles.
SearchSettles(language, threw, titles, t) ==
  /\ vResult.pc = "variants"
  /\ vResult.attempts[language].stage = "search"
  /\ t \in SettleTimes
  /\ now' = t
  /\ LET run == [vResult EXCEPT !.calls = {c \in @ : c.language # language}]
     IN  vResult' = IF threw THEN nextTitle(run, language, 0, t)
                    ELSE nextTitle(run, language, titles, t)
  /\ UNCHANGED <<mode, factCheckCache, req, vInput>>

\* The summary call of one language settles: it threw or answered with a
\* disambiguation page (the next title is tried), or it is the candidate.
SummarySettles(language, threw, summary, t) ==
  /\ vResult.pc = "variants"
  /\ vResult.attempts[language].stage = "summary"
  /\ t \in SettleTimes
  /\ now' = t
  /\ LET run == [vResult EXCEPT !.calls = {c \in @ : c.language # language}]
     IN  vResult' =
           IF threw \/ summary.type = "disambiguation"
           THEN nextTitle(run, language, run.attempts[language].titles, t)
           ELSE [run EXCEPT !.attempts[language] =
                              [stage |-> "settled", titles |-> 0,
                               candidate |-> Some([language |-> language,
                                                   summary |-> summary])]]
  /\ UNCHANGED <<mode, factCheckCache, req, vInput>>

\* A plausible slip: the first language search to settle ends the wait
\* (Promise.race in place of Promise.all).
VariantAwaitedRace ==
  LET run == vResult
      scoreCandidate(summary) ==
        (IF summary.mentionsQuery THEN 6 ELSE 0)
          + (IF summary.wikibase_item THEN 1 ELSE 0)
          + (IF summary.type # "disambiguation" THEN 1 ELSE 0)
      candidates ==
        SelectSeq([i \in DOMAIN WIKIMEDIA_LANGUAGES |->
                     run.attempts[WIKIMEDIA_LANGUAGES[i]].candidate],
                  LAMBDA value : value # None)
      \* candidates.sort(...)[0]: the first of the highest score.
      best ==
        CHOOSE i \in DOMAIN candidates :
          /\ \A j \in DOMAIN candidates :
               scoreCandidate(candidates[j][1].summary)
                 <= scoreCandidate(candidates[i][1].summary)
          /\ \A j \in 1..(i - 1) :
               scoreCandidate(candidates[j][1].summary)
                 < scoreCandidate(candidates[i][1].summary)
  IN  /\ run.pc = "variants"
      /\ \E language \in DOMAIN run.attempts : run.attempts[language].stage = "settled"
      /\ vResult' =
           IF Len(candidates) = 0
           THEN IF run.variant < Len(queryVariants(vInput.query))
                THEN startSearch(startSearch([run EXCEPT !.variant = @ + 1],
                                             WIKIMEDIA_LANGUAGES[1], now),
                                 WIKIMEDIA_LANGUAGES[2], now)
                ELSE afterVariants(run, now)
           ELSE afterVariants([run EXCEPT !.bestCandidate = candidates[best]], now)
      /\ UNCHANGED <<now, mode, factCheckCache, req, vInput>>

\* The variant loop resumes after Promise.all: the best candidate ends the
\* loop, no candidate starts the next variant.
VariantAwaited ==
  LET run == vResult
      scoreCandidate(summary) ==
        (IF summary.mentionsQuery THEN 6 ELSE 0)
          + (IF summary.wikibase_item THEN 1 ELSE 0)
          + (IF summary.type # "disambiguation" THEN 1 ELSE 0)
      candidates ==
        SelectSeq([i \in DOMAIN WIKIMEDIA_LANGUAGES |->
                     run.attempts[WIKIMEDIA_LANGUAGES[i]].candidate],
                  LAMBDA value : value # None)
      \* candidates.sort(...)[0]: the first of the highest score.
      best ==
        CHOOSE i \in DOMAIN candidates :
          /\ \A j \in DOMAIN candidates :
               scoreCandidate(candidates[j][1].summary)
                 <= scoreCandidate(candidates[i][1].summary)
          /\ \A j \in 1..(i - 1) :
               scoreCandidate(candidates[j][1].summary)
                 < scoreCandidate(candidates[i][1].summary)
  IN  /\ run.pc = "variants"
      /\ \A language \in DOMAIN run.attempts : run.attempts[language].stage = "settled"
      /\ vResult' =
           IF Len(candidates) = 0
           THEN IF run.variant < Len(queryVariants(vInput.query))
                THEN startSearch(startSearch([run EXCEPT !.variant = @ + 1],
                                             WIKIMEDIA_LANGUAGES[1], now),
                                 WIKIMEDIA_LANGUAGES[2], now)
                ELSE afterVariants(run, now)
           ELSE afterVariants([run EXCEPT !.bestCandidate = candidates[best]], now)
      /\ UNCHANGED <<now, mode, factCheckCache, req, vInput>>

\* A Wikidata call settles: the entities call threw, named no linked
\* entity or named some (their labels are fetched when at least 220 ms are
\* left); the labels call ends Phase A whatever its outcome.
WikidataSettles(threw, linkedIds, t) ==
  /\ vResult.pc \in {"entities", "labels"}
  /\ t \in SettleTimes
  /\ now' = t
  /\ LET run == [vResult EXCEPT !.calls = {}]
         labelsTimeoutMs == getRemainingMs(run.phaseAStopAt, vInput.providerTimeoutMs, t)
     IN  vResult' =
           IF vResult.pc = "entities" /\ ~ threw /\ linkedIds > 0 /\ labelsTimeoutMs >= 220
           THEN [run EXCEPT !.pc = "labels",
                            !.calls = {fetchJsonWithTimeout("labels", "none",
                                                            labelsTimeoutMs, t)}]
           ELSE startPhaseB(run, t)
  /\ UNCHANGED <<mode, factCheckCache, req, vInput>>

\* The call of one secondary provider settles; the bundle is returned when
\* both have.
SecondarySettles(kind, t) ==
  /\ vResult.pc = "phaseB"
  /\ \E c \in vResult.calls : c.kind = kind
  /\ t \in SettleTimes
  /\ now' = t
  /\ LET calls == {c \in vResult.calls : c.kind # kind}
     IN  vResult' = [vResult EXCEPT !.calls = calls,
                                    !.pc = IF calls = {} THEN "done" ELSE "phaseB"]
  /\ UNCHANGED <<mode, factCheckCache, req, vInput>>

PNext ==
  \/ \E language \in SeqToSet(WIKIMEDIA_LANGUAGES), threw \in BOOLEAN,
        titles \in 0..MaxTitles, t \in SettleTimes :
       SearchSettles(language, threw, titles, t)
  \/ \E language \in SeqToSet(WIKIMEDIA_LANGUAGES), threw \in BOOLEAN,
        summary \in [type : {"standard", "disambiguation"}, mentionsQuery : BOOLEAN,
                     wikibase_item : BOOLEAN],
        t \in SettleTimes :
       SummarySettles(language, threw, summary, t)
  \/ VariantAwaited
  \/ \E threw \in BOOLEAN, linkedIds \in 0..1, t \in SettleTimes :
       WikidataSettles(threw, linkedIds, t)
  \/ \E kind \in {"aic", "cma"}, t \in SettleTimes : SecondarySettles(kind, t)

SpecProviders == PInit /\ [][PNext]_vars

(***************************************************************************)
(* Properties of the validator, checked under SpecValidator.               *)
(***************************************************************************)
VKnowledge == buildKnowledge(vInput.base, vInput.evidence)

\* The support predicate of the specification, clause by clause.
SupportedBy(text, knowledge) ==
  /\ Trim(text) # <<>>
  /\ ~ hasYearConflict(text, knowledge.year)
  /\ \/ hasCoreFieldMention(text, knowledge)
     \/ hasEvidenceTokenSupport(text, knowledge.evidenceTokens)

\* summary begins with prefix.
StartsWith(s, prefix) ==
  Len(prefix) <= Len(s) /\ SubSeq(s, 1, Len(prefix)) = prefix

\* What a summary holds after the base summary.
AppendedTo(base, summary) == SubSeq(summary, Len(Trim(base)) + 1, Len(summary))

HasYearAbsentFrom(text, knownYears) ==
  \E year \in extractYears(text) : \A known \in knownYears : ~ Includes(known, year)

\* C2: a candidate fact containing a 4-digit year that is absent from all
\* known year values is never among the verified facts, also when no year
\* value is known.
C2_YearAbsentFactNeverVerified ==
  vResult # None =>
    \A i \in DOMAIN vResult[1].facts :
      ~ HasYearAbsentFrom(vResult[1].facts[i], VKnowledge.year)

(***************************************************************************)
(* Properties of the endpoint, checked under Spec.                         *)
(***************************************************************************)
\* The handler has answered with a success response.
Succeeded(r) == req[r].pc = "done" /\ req[r].response[1].payload # None

\* The body of the success response, and the attribution accepted after the
\* recognition passes.
BodyOf(r) == req[r].response[1].payload[1]
AcceptedOf(r) == req[r].finalPayload[1]

UnknownText(value) == ToLowerCase(Trim(value)) = Text.Unknown
BothUnknown(payload) == UnknownText(payload.painting) /\ UnknownText(payload.artist)
BothResolved(payload) == ~ UnknownText(payload.painting) /\ ~ UnknownText(payload.artist)

\* The handler has answered with the hard analysis failure.
HardFailure(r) ==
  /\ req[r].pc = "done"
  /\ req[r].finalPayload # None
  /\ req[r].response[1] = createErrorResponse(req[r].requestId, 502, "upstream_error")

\* C3: in every success response, on every path and in every mode, painting,
\* artist, year, museum, style, confidence and reasoning equal those of the
\* attribution accepted after the recognition passes.
C3_CoreFieldsUnchanged ==
  \A r \in Req :
    Succeeded(r) =>
      /\ BodyOf(r).painting = AcceptedOf(r).painting
      /\ BodyOf(r).artist = AcceptedOf(r).artist
      /\ BodyOf(r).year = AcceptedOf(r).year
      /\ BodyOf(r).museum = AcceptedOf(r).museum
      /\ BodyOf(r).style = AcceptedOf(r).style
      /\ BodyOf(r).confidence = AcceptedOf(r).confidence
      /\ BodyOf(r).reasoning = AcceptedOf(r).reasoning

\* One request answered with applied verified facts, another from the cache.
C3_Witness ==
  /\ mode = "enrich"
  /\ \E r1, r2 \in Req :
       /\ Succeeded(r1) /\ req[r1].path = "validate_merge" /\ Len(BodyOf(r1).facts) > 0
       /\ Succeeded(r2) /\ req[r2].path = "cache_hit"

\* C4: in every success response the summary of the attribution accepted for
\* this request is a prefix of the returned summary.
C4_SummaryOnlyAppendedTo ==
  \A r \in Req :
    Succeeded(r) => StartsWith(BodyOf(r).summary, AcceptedOf(r).summary)

\* C5: in shadow mode every success response carries the recognition summary
\* and an empty facts list, from a fresh run and from the cache alike.
C5_ShadowReturnsRecognitionResult ==
  mode = "shadow" =>
    \A r \in Req :
      Succeeded(r) =>
        /\ BodyOf(r).summary = AcceptedOf(r).summary
        /\ BodyOf(r).facts = <<>>

\* Shadow mode: a fresh run whose validator verified a fact, and a cache hit.
C5_Witness ==
  /\ mode = "shadow"
  /\ \E r1, r2 \in Req :
       /\ Succeeded(r1) /\ req[r1].path = "validate_merge"
       /\ req[r1].calls.validate = 1
       /\ BodyOf(r1).factCheck.verifiedFacts >= 1
       /\ Succeeded(r2) /\ req[r2].path = "cache_hit"

\* C6: in off mode no request calls a provider, calls the facts-draft model,
\* reads or writes the cache, and every success response carries the
\* recognition result with empty facts, status skipped_no_evidence, zero
\* verified facts and no sources.
C6_OffModeDoesNoEvidenceWork ==
  mode = "off" =>
    /\ DOMAIN factCheckCache = {}
    /\ \A r \in Req :
         /\ req[r].calls = ZeroCalls
         /\ req[r].pc \notin {"phaseA", "phaseB", "draft"}
         /\ Succeeded(r) =>
              /\ BodyOf(r).summary = AcceptedOf(r).summary
              /\ BodyOf(r).facts = <<>>
              /\ BodyOf(r).factCheck.status = "skipped_no_evidence"
              /\ BodyOf(r).factCheck.verifiedFacts = 0
              /\ BodyOf(r).factCheck.sources = <<>>

\* Off mode: a success response for a confident, resolved attribution.
C6_Witness ==
  /\ mode = "off"
  /\ \E r \in Req :
       /\ Succeeded(r)
       /\ AcceptedOf(r).confidence = "high"
       /\ BothResolved(AcceptedOf(r))

\* C7: once the passes are over, the hard analysis failure (502
\* upstream_error) is the answer exactly when painting and artist of the
\* accepted attribution are both "unknown", and then nothing of the evidence
\* stage has run; with exactly one of them unknown the answer is a success.
C7_HardFailureIffBothUnknown ==
  \A r \in Req :
    (req[r].finalPayload # None /\ req[r].pc # "pass") =>
      /\ BothUnknown(AcceptedOf(r)) <=> HardFailure(r)
      /\ BothUnknown(AcceptedOf(r)) => req[r].calls = ZeroCalls
      /\ (UnknownText(AcceptedOf(r).painting) # UnknownText(AcceptedOf(r).artist))
           => Succeeded(r)

\* A hard failure for an attribution spelled "Unknown", and a success for an
\* attribution with only the painting unknown.
C7_Witness ==
  \E r1, r2 \in Req :
    /\ HardFailure(r1) /\ AcceptedOf(r1).painting # Text.Unknown
    /\ Succeeded(r2)
    /\ UnknownText(AcceptedOf(r2).painting) /\ ~ UnknownText(AcceptedOf(r2).artist)

\* C8 as stated: a request whose first pass resolved painting and artist
\* never ends in the hard failure.
C8_ResolvedPassNeverHardFails ==
  \A r \in Req :
    (req[r].primary # None /\ BothResolved(req[r].primary[1])) => ~ HardFailure(r)

\* C8: a request whose first pass resolved painting and artist ends in the
\* hard failure only when a second pass succeeded and returned painting and
\* artist both unknown.
C8_ResolvedPassHardFailsOnlyByRetry ==
  \A r \in Req :
    (req[r].primary # None /\ BothResolved(req[r].primary[1]) /\ HardFailure(r)) =>
      /\ req[r].retry = "ok"
      /\ BothUnknown(AcceptedOf(r))

\* A resolved first pass, a second pass that succeeded, and a success.
C8_Witness ==
  \E r \in Req :
    /\ req[r].primary # None /\ BothResolved(req[r].primary[1])
    /\ req[r].retry = "ok"
    /\ Succeeded(r)

\* The failures the specification calls retryable: a timeout, a 5xx, a 429, a
\* transport error; a billing issue is not.
RetryableFailure(error) ==
  /\ ~ error.billing
  /\ \/ error.type = "AbortError"
     \/ error.type = "APIError" /\ (error.status = 429 \/ error.status >= 500)
     \/ error.type = "TypeError"

\* One step of a handler that is inside a recognition pass.
C9_Step(r) ==
  LET st == req[r]
      st2 == req'[r]
      continues == st2.pc = "pass" /\ st2.pass = st.pass
      failedPass == ~ continues /\ st2.passError # None
  IN  (st.pc = "pass" /\ st2 # st) =>
        /\ st.attempt \in 1..MAX_RETRY_ATTEMPTS
        /\ continues =>
             /\ st.attempt = 1 /\ st2.attempt = 2
             /\ st2.lastError # None /\ st2.lastError[1].retryable
        /\ (failedPass /\ st.attempt = 1) => ~ st2.passError[1].retryable
        /\ (failedPass /\ st.pass = "primary") =>
             st2.response =
               Some(createErrorResponse(st2.requestId, st2.passError[1].status,
                                        st2.passError[1].code))

\* C9: a pass makes at most two attempts; a second attempt follows exactly a
\* first attempt that failed retryably; a pass that fails at its first
\* attempt fails with a non-retryable error; the error of the failed primary
\* pass is the response.
C9_AtMostTwoAttempts ==
  /\ \A error \in ThrownErrors \ {ThrownError("Error", 0, FALSE)} :
       normalizeError(error).retryable <=> RetryableFailure(error)
  /\ [][\A r \in Req : C9_Step(r)]_vars

\* A second attempt in flight after a first attempt that timed out.
C9_Witness ==
  \E r \in Req :
    /\ req[r].pc = "pass" /\ req[r].attempt = 2
    /\ req[r].lastError = Some(NormalizedError("timeout", 504, TRUE))

\* The condition of the specification for a second pass.
NeedsSecondPass(payload) ==
  \/ payload.confidence = "low"
  \/ UnknownText(payload.painting)
  \/ UnknownText(payload.artist)

\* One step of a handler that is inside a recognition pass.
C10_Step(r) ==
  LET st == req[r]
      st2 == req'[r]
      primaryReturned == st.pass = "primary" /\ ~ (st2.pc = "pass" /\ st2.pass = "primary")
      retryIssued == st.pass = "primary" /\ st2.pc = "pass" /\ st2.pass = "retry"
      retryReturned == st.pass = "retry" /\ st2.pc # "pass"
  IN  (st.pc = "pass" /\ st2 # st) =>
        /\ primaryReturned =>
             (retryIssued <=>
                (st2.passError = None /\ NeedsSecondPass(st2.finalPayload[1])))
        /\ (st.pass = "retry" /\ st2.pc = "pass") =>
             (st2.pass = "retry" /\ st2.attempt = st.attempt + 1)
        /\ (retryReturned /\ st2.passError # None) =>
             /\ st2.finalPayload = st.primary
             /\ st2.pc = "done"
             /\ (st2.response[1].payload = None) <=> BothUnknown(st.primary[1])

\* C10: the second pass is issued exactly when the first pass succeeded with
\* low confidence or an unknown painting or artist; no pass follows the second
\* pass; when the second pass fails the first pass's attribution is the
\* accepted one and the request fails only if that attribution is unresolved.
C10_SecondPassExactlyWhenNeeded ==
  [][\A r \in Req : C10_Step(r)]_vars

\* A failed second pass, the first attribution kept, a success response.
C10_Witness ==
  \E r \in Req :
    /\ req[r].retry = "failed"
    /\ req[r].finalPayload = req[r].primary
    /\ Succeeded(r)

(***************************************************************************)
(* Properties of the evidence stage of the endpoint, checked under Spec.   *)
(***************************************************************************)
\* The attribution is not one the evidence stage runs for: low confidence, or
\* painting or artist unknown.
NotWorthChecking(payload) ==
  \/ payload.confidence = "low"
  \/ UnknownText(payload.painting)
  \/ UnknownText(payload.artist)

\* C11: in every mode, once the passes have accepted an attribution with low
\* confidence or with exactly one of painting and artist unknown, the request
\* has answered with a success response with empty facts and status
\* skipped_no_evidence, and has read no cache, written no cache, called no
\* provider and made no facts-draft call.
C11_SkipDoesNoEvidenceWork ==
  \A r \in Req :
    (/\ req[r].finalPayload # None
     /\ req[r].pc # "pass"
     /\ NotWorthChecking(AcceptedOf(r))
     /\ ~ BothUnknown(AcceptedOf(r))) =>
      /\ Succeeded(r)
      /\ req[r].calls = ZeroCalls
      /\ BodyOf(r).facts = <<>>
      /\ BodyOf(r).summary = AcceptedOf(r).summary
      /\ BodyOf(r).factCheck.status = "skipped_no_evidence"
      /\ BodyOf(r).factCheck.verifiedFacts = 0

\* Enrich mode: an attribution of low confidence whose subject has a cache
\* entry was answered without any evidence work.
C11_Witness ==
  /\ mode = "enrich"
  /\ \E r \in Req :
       /\ Succeeded(r)
       /\ BothResolved(AcceptedOf(r))
       /\ AcceptedOf(r).confidence = "low"
       /\ req[r].calls = ZeroCalls
       /\ normalizeCacheKey(AcceptedOf(r).painting, AcceptedOf(r).artist)
            \in DOMAIN factCheckCache

\* The subject key of the attribution a request has accepted.
SubjectKeyOf(st) ==
  normalizeCacheKey(st.finalPayload[1].painting, st.finalPayload[1].artist)

\* The step of a handler that leaves the recognition passes with an
\* attribution the evidence stage runs for, its subject key holding an entry
\* that has not expired at the time of the step.
C12_Step(r) ==
  LET st == req[r]
      st2 == req'[r]
      cached == factCheckCache[SubjectKeyOf(st2)].value
      body == st2.response[1].payload[1]
  IN  (/\ st.pc = "pass" /\ st2.pc # "pass"
       /\ st2.finalPayload # None
       /\ ~ BothUnknown(st2.finalPayload[1])
       /\ ~ NotWorthChecking(st2.finalPayload[1])
       /\ mode # "off"
       /\ SubjectKeyOf(st2) \in DOMAIN factCheckCache
       /\ factCheckCache[SubjectKeyOf(st2)].expiresAt > now') =>
        /\ st2.pc = "done"
        /\ st2.response[1].payload # None
        /\ st2.calls.provider = 0 /\ st2.calls.draft = 0
        /\ st2.calls.validate = 0 /\ st2.calls.cacheWrites = 0
        /\ st2.calls.cacheReads = 1
        /\ factCheckCache' = factCheckCache
        /\ body.factCheck.status = cached.factCheck.status
        /\ body.factCheck.verifiedFacts = cached.factCheck.verifiedFacts
        /\ body.factCheck.sources = cached.factCheck.sources
        /\ mode = "enrich" => (body.summary = cached.summary /\ body.facts = cached.facts)
        /\ mode = "shadow" =>
             (body.summary = st2.finalPayload[1].summary /\ body.facts = <<>>)

LookupsFollowExpiry(cache, key) ==
  \A t \in {cache[key].expiresAt - normalizedFactCheckCacheTtlMs,
            cache[key].expiresAt - 1, cache[key].expiresAt,
            cache[key].expiresAt + 1} :
    IF t < cache[key].expiresAt
    THEN getFactCheckCacheValue(cache, key, t) =
           [hit |-> Some(cache[key].value), cache |-> cache]
    ELSE /\ getFactCheckCacheValue(cache, key, t).hit = None
         /\ key \notin DOMAIN getFactCheckCacheValue(cache, key, t).cache

\* Every entry of the cache answers lookups by its expiry, and so does an
\* entry stored now over any entry of the cache.
C13_Lookups ==
  \A key \in DOMAIN factCheckCache :
    /\ LookupsFollowExpiry(factCheckCache, key)
    /\ \A other \in DOMAIN factCheckCache :
         /\ setFactCheckCacheValue(factCheckCache, key, factCheckCache[other].value, now)[key]
              = [expiresAt |-> now + normalizedFactCheckCacheTtlMs,
                 value |-> factCheckCache[other].value]
         /\ LookupsFollowExpiry(
              setFactCheckCacheValue(factCheckCache, key, factCheckCache[other].value, now),
              key)

\* One step of a handler: what it stores, and what its lookup finds.
C13_Step(r) ==
  LET st == req[r]
      st2 == req'[r]
      body == st2.response[1].payload[1]
      key == SubjectKeyOf(st2)
  IN  /\ st2.calls.cacheWrites # st.calls.cacheWrites =>
           /\ factCheckCache'[key].expiresAt = now' + normalizedFactCheckCacheTtlMs
           /\ factCheckCache'[key].value.factCheck = body.factCheck
           /\ mode = "enrich" =>
                /\ factCheckCache'[key].value.summary = body.summary
                /\ factCheckCache'[key].value.facts = body.facts
      /\ (st2.calls.cacheReads # st.calls.cacheReads /\ key \in DOMAIN factCheckCache) =>
           IF now' < factCheckCache[key].expiresAt
           THEN /\ st2.pc = "done"
                /\ body.factCheck.status = factCheckCache[key].value.factCheck.status
                /\ mode = "enrich" =>
                     /\ body.summary = factCheckCache[key].value.summary
                     /\ body.facts = factCheckCache[key].value.facts
           ELSE /\ st2.pc = "phaseA"
                /\ key \notin DOMAIN factCheckCache'

\* An entry changes only by a write to its key or by a lookup of its key at
\* or after its expiry.
C13_Frame ==
  \A key \in DOMAIN factCheckCache :
    (key \notin DOMAIN factCheckCache' \/ factCheckCache'[key] # factCheckCache[key]) =>
      \E r \in Req :
        /\ req'[r].finalPayload # None
        /\ SubjectKeyOf(req'[r]) = key
        /\ \/ req'[r].calls.cacheWrites # req[r].calls.cacheWrites
           \/ /\ req'[r].calls.cacheReads # req[r].calls.cacheReads
              /\ now' >= factCheckCache[key].expiresAt

\* C13: a value stored under a key at time t is kept with expiry
\* t + time-to-live; until another write to that key, every lookup before the
\* expiry returns exactly the stored summary, facts and status and every
\* lookup at or after the expiry is a miss.
C13_CacheRoundTrip ==
  /\ [] C13_Lookups
  /\ [][C13_Frame /\ \A r \in Req : C13_Step(r)]_vars

\* After the time-to-live of an entry a request for the same subject looked
\* it up, missed, and went on to fetch evidence.
C13_Witness ==
  /\ now >= FACTCHECK_CACHE_TTL_MS
  /\ \E r1, r2 \in Req :
       /\ req[r1].pc = "done" /\ req[r1].calls.cacheWrites = 1
       /\ req[r2].pc = "phaseA" /\ req[r2].calls.cacheReads = 1
       /\ SubjectKeyOf(req[r1]) = SubjectKeyOf(req[r2])
       /\ SubjectKeyOf(req[r2]) \notin DOMAIN factCheckCache

\* C14: no cache entry holds a result whose verification status is
\* skipped_timeout or skipped_no_evidence.
C14_NoSkippedResultIsCached ==
  \A key \in DOMAIN factCheckCache :
    factCheckCache[key].value.factCheck.status
      \notin {"skipped_timeout", "skipped_no_evidence"}

(***************************************************************************)
(* Properties of fetchEvidenceBundle, checked under SpecEvidence.          *)
(***************************************************************************)
\* What the bundle has to hold of one provider call: the provider's own
\* output, or for a call that threw a source with ok false and no record.
KeptOf(outcome, name, tier) ==
  IF outcome.threw
  THEN [source |-> [name |-> name, tier |-> tier, latencyMs |-> 0,
                    ok |-> FALSE, recordCount |-> 0],
        records |-> <<>>]
  ELSE outcome.output

\* The handler under SpecEvidence, and the bundle it was handed.
EvidenceCaller == req[1]
BundleOf(st) == st.evidence[1]

\* C15: whatever the providers do, fetchEvidenceBundle returns a bundle and
\* the handler does not answer with an error; a provider that threw is in the
\* bundle as a source with ok false and no record, and the records of the
\* bundle are the records of the providers that returned, in the order
\* Wikimedia, Art Institute of Chicago, Cleveland Museum of Art.
C15_ProviderFailureIsContained ==
  /\ EvidenceCaller.pc = "phaseB" =>
       EvidenceCaller.phaseAResult = Some(KeptOf(vInput.wiki, "Wikimedia", "primary"))
  /\ EvidenceCaller.pc \notin {"phaseA", "phaseB"} =>
       /\ EvidenceCaller.evidence # None
       /\ EvidenceCaller.response # None => EvidenceCaller.response[1].payload # None
       /\ BundleOf(EvidenceCaller).sources[1] =
            KeptOf(vInput.wiki, "Wikimedia", "primary").source
       /\ IF Len(BundleOf(EvidenceCaller).sources) = 1
          THEN BundleOf(EvidenceCaller).records =
                 KeptOf(vInput.wiki, "Wikimedia", "primary").records
          ELSE /\ BundleOf(EvidenceCaller).sources =
                    <<KeptOf(vInput.wiki, "Wikimedia", "primary").source,
                      KeptOf(vInput.aic, "Art Institute of Chicago", "secondary").source,
                      KeptOf(vInput.cma, "Cleveland Museum of Art", "secondary").source>>
               /\ BundleOf(EvidenceCaller).records =
                    KeptOf(vInput.wiki, "Wikimedia", "primary").records
                      \o KeptOf(vInput.aic, "Art Institute of Chicago", "secondary").records
                      \o KeptOf(vInput.cma, "Cleveland Museum of Art", "secondary").records

\* The Art Institute call threw while Wikimedia and Cleveland returned
\* records: the bundle holds the records of both.
C15_Witness ==
  /\ EvidenceCaller.evidence # None
  /\ vInput.aic.threw /\ ~ vInput.wiki.threw /\ ~ vInput.cma.threw
  /\ Len(BundleOf(EvidenceCaller).sources) = 3
  /\ ~ BundleOf(EvidenceCaller).sources[2].ok
  /\ BundleOf(EvidenceCaller).sources[1].recordCount > 0
  /\ BundleOf(EvidenceCaller).sources[3].recordCount > 0
  /\ Len(BundleOf(EvidenceCaller).records) =
       BundleOf(EvidenceCaller).sources[1].recordCount
         + BundleOf(EvidenceCaller).sources[3].recordCount

\* The time left before the hard stop when Phase A has finished: the call
\* started at 0 with the configured budget and response buffer.
RemainingAfterA == (FACTCHECK_BUDGET_MS - FACTCHECK_RESPONSE_BUFFER_MS) - vInput.dA

\* C16: Phase B is running or has run exactly when more than 220 ms were left
\* before the hard stop at the end of Phase A; otherwise only the primary
\* provider was called and the bundle holds the primary provider's source
\* and records alone.
C16_PhaseBOnlyAboveThreshold ==
  /\ EvidenceCaller.pc = "phaseA" => EvidenceCaller.calls.provider = 1
  /\ EvidenceCaller.pc = "phaseB" =>
       (RemainingAfterA > 220 /\ EvidenceCaller.calls.provider = 3)
  /\ EvidenceCaller.pc \notin {"phaseA", "phaseB"} =>
       IF RemainingAfterA > 220
       THEN /\ EvidenceCaller.calls.provider = 3
            /\ Len(BundleOf(EvidenceCaller).sources) = 3
       ELSE /\ EvidenceCaller.calls.provider = 1
            /\ BundleOf(EvidenceCaller).sources =
                 <<KeptOf(vInput.wiki, "Wikimedia", "primary").source>>
            /\ BundleOf(EvidenceCaller).records =
                 KeptOf(vInput.wiki, "Wikimedia", "primary").records

\* Phase A ended with exactly 220 ms left: Phase B did not run although the
\* secondary providers had records to give.
C16_Witness ==
  /\ RemainingAfterA = 220
  /\ EvidenceCaller.evidence # None
  /\ EvidenceCaller.calls.provider = 1
  /\ ~ vInput.aic.threw /\ vInput.aic.output.source.recordCount > 0
  /\ Len(BundleOf(EvidenceCaller).sources) = 1

(***************************************************************************)
(* The verification status, checked under SpecValidator.                   *)
(***************************************************************************)
\* The status the specification derives from the bundle, the timeout flag,
\* the number of verified facts and the number of summary sentences kept.
StatusBySpecification(hasRecords, timedOut, verified, kept) ==
  CASE ~ hasRecords /\ timedOut -> "skipped_timeout"
    [] ~ hasRecords /\ ~ timedOut -> "skipped_no_evidence"
    [] hasRecords /\ timedOut /\ verified = 0 /\ kept = 0 -> "skipped_timeout"
    [] hasRecords /\ ~ (timedOut /\ verified = 0 /\ kept = 0)
         /\ (verified >= 2 \/ kept >= 1) -> "verified"
    [] OTHER -> "partial"

\* C17: the status of every result of validateAndMerge is the one the
\* specification derives from its input and from what the call verified.
C17_StatusDerivation ==
  vResult # None =>
    vResult[1].factCheck.status =
      StatusBySpecification(Len(vInput.evidence.records) > 0, vInput.timedOut,
                            Len(vResult[1].facts),
                            vResult[1].diagnostics.keptSummaryAddonSentences)

\* A call past its deadline, with evidence records, that verified one fact
\* and kept no sentence: the status is partial.
C17_Witness ==
  /\ vResult # None
  /\ vInput.timedOut
  /\ Len(vInput.evidence.records) > 0
  /\ Len(vResult[1].facts) = 1
  /\ vResult[1].diagnostics.keptSummaryAddonSentences = 0
  /\ vResult[1].factCheck.status = "partial"

(***************************************************************************)
(* Failures, checked under Spec.                                           *)
(***************************************************************************)
\* The answer to request r carries the accepted attribution as it is, with
\* no facts.
AnsweredWithRecognitionOnly(r) ==
  /\ Succeeded(r)
  /\ BodyOf(r).painting = AcceptedOf(r).painting
  /\ BodyOf(r).artist = AcceptedOf(r).artist
  /\ BodyOf(r).year = AcceptedOf(r).year
  /\ BodyOf(r).museum = AcceptedOf(r).museum
  /\ BodyOf(r).style = AcceptedOf(r).style
  /\ BodyOf(r).confidence = AcceptedOf(r).confidence
  /\ BodyOf(r).reasoning = AcceptedOf(r).reasoning
  /\ BodyOf(r).summary = AcceptedOf(r).summary
  /\ BodyOf(r).facts = <<>>
  /\ BodyOf(r).factCheck.verifiedFacts = 0
  /\ BodyOf(r).factCheck.sources = <<>>

\* C18: a request whose passes are over with painting and artist not both
\* unknown never answers with an error; when an exception was raised in its
\* evidence stage the answer is the accepted attribution unchanged with no
\* facts, with status skipped_timeout if the reported latency of the stage
\* exceeds the budget and skipped_no_evidence otherwise.
C18_StageExceptionDegrades ==
  \A r \in Req :
    /\ (/\ req[r].pc = "done"
        /\ req[r].finalPayload # None
        /\ ~ BothUnknown(AcceptedOf(r))) => Succeeded(r)
    /\ req[r].path = "stage_exception" =>
         /\ AnsweredWithRecognitionOnly(r)
         /\ BodyOf(r).factCheck.status =
              (IF BodyOf(r).factCheck.latencyMs > FACTCHECK_BUDGET_MS
               THEN "skipped_timeout" ELSE "skipped_no_evidence")

\* An exception in the facts-draft stage after the budget had passed, and an
\* exception during the evidence fetch within the budget.
C18_Witness ==
  \E r1, r2 \in Req :
    /\ req[r1].path = "stage_exception" /\ req[r1].evidence # None
    /\ BodyOf(r1).factCheck.status = "skipped_timeout"
    /\ req[r2].path = "stage_exception" /\ req[r2].evidence = None
    /\ BodyOf(r2).factCheck.status = "skipped_no_evidence"

\* The handler has answered with an error.
Failed(r) == req[r].pc = "done" /\ req[r].response[1].payload = None

\* The causes of an error response: the request was rejected before any model
\* call (body or credential), the first pass failed, or the passes ended with
\* painting and artist both unknown.
RejectedAtValidation(r) ==
  /\ req[r].primary = None /\ req[r].finalPayload = None /\ req[r].passError = None
  /\ req[r].response[1] \in {createErrorResponse(req[r].requestId, 400, "bad_request"),
                             createErrorResponse(req[r].requestId, 500, "misconfigured_env")}

FirstPassFailed(r) ==
  /\ req[r].finalPayload = None /\ req[r].retry = "none"
  /\ req[r].passError # None
  /\ req[r].response[1] =
       createErrorResponse(req[r].requestId, req[r].passError[1].status,
                           req[r].passError[1].code)

\* C19: an error response has one of four causes: a missing or malformed
\* body, a missing credential, a failed first pass, or an accepted attribution
\* with painting and artist both unknown; a request that has called a
\* provider or the facts-draft model, or whose second pass failed on a
\* resolved first attribution, never answers with an error.
C19_ErrorCauses ==
  \A r \in Req :
    /\ Failed(r) =>
         /\ \/ RejectedAtValidation(r)
            \/ FirstPassFailed(r)
            \/ (req[r].finalPayload # None /\ BothUnknown(AcceptedOf(r)))
         /\ req[r].calls = ZeroCalls
    /\ (req[r].pc = "done" /\ req[r].retry = "failed" /\ ~ BothUnknown(AcceptedOf(r)))
         => Succeeded(r)
    /\ (req[r].pc = "done" /\ req[r].calls.provider + req[r].calls.draft > 0)
         => Succeeded(r)

\* One request failed with the error of its first pass; another succeeded
\* although none of its three providers gave a record.
C19_Witness ==
  \E r1, r2 \in Req :
    /\ Failed(r1) /\ FirstPassFailed(r1)
    /\ Succeeded(r2) /\ req[r2].calls.provider = 3
    /\ \A i \in DOMAIN req[r2].evidence[1].sources : ~ req[r2].evidence[1].sources[i].ok

(***************************************************************************)
(* The request id, checked under SpecRequestId.                            *)
(***************************************************************************)
\* The inbound header is one createRequestId takes the id from: present, not
\* blank, and of at most 120 characters.
UsableHeader(fromHeader) ==
  /\ fromHeader # None
  /\ \E i \in DOMAIN fromHeader[1] : fromHeader[1][i] \notin WhitespaceChars
  /\ Len(fromHeader[1]) <= 120

\* C20: every response carries the same id in its x-request-id header and in
\* its body; the id is the trimmed inbound header when that header is not
\* blank and has at most 120 characters, and a generated id otherwise.
C20_RequestIdEchoed ==
  \A r \in Req :
    req[r].response # None =>
      /\ req[r].response[1].xRequestId = req[r].response[1].requestId
      /\ IF UsableHeader(req[r].inboundHeader)
         THEN /\ req[r].response[1].requestId = Trim(req[r].inboundHeader[1])
              /\ req[r].response[1].requestId # randomUUID(r)
         ELSE req[r].response[1].requestId = randomUUID(r)

\* A success response after validate-merge to a request that came with a
\* padded header: the id is the header without its padding.
C20_Witness ==
  \E r \in Req :
    /\ Succeeded(r)
    /\ req[r].calls.validate = 1
    /\ req[r].inboundHeader # None
    /\ req[r].response[1].xRequestId # req[r].inboundHeader[1]
    /\ req[r].response[1].xRequestId = Trim(req[r].inboundHeader[1])
    /\ Len(req[r].response[1].xRequestId) > 0

(***************************************************************************)
(* Request validation, checked under Spec.                                 *)
(***************************************************************************)
\* One step of a handler that has just been invoked.
C21_Step(r) ==
  LET st == req[r]
      st2 == req'[r]
      badBody == st2.body # "data_url"
      badKey == st2.apiKey # "set"
  IN  (st.pc = "idle" /\ st2.pc # "idle") =>
        /\ badBody =>
             /\ st2.pc = "done"
             /\ st2.response[1].status = 400 /\ st2.response[1].code = "bad_request"
        /\ (~ badBody /\ badKey) =>
             /\ st2.pc = "done"
             /\ st2.response[1].status = 500
             /\ st2.response[1].code = "misconfigured_env"
        /\ (badBody \/ badKey) =>
             /\ st2.response[1].payload = None
             /\ st2.pass = "none" /\ st2.attempt = 0
             /\ st2.calls = ZeroCalls
             /\ factCheckCache' = factCheckCache
        /\ (~ badBody /\ ~ badKey) =>
             (st2.pc = "pass" /\ st2.pass = "primary" /\ st2.attempt = 1)

VisibleResult(result) ==
  [facts |-> result.facts, summary |-> result.summary,
   status |-> result.factCheck.status,
   verifiedFacts |-> result.factCheck.verifiedFacts,
   sources |-> result.factCheck.sources]

LeftForDraft ==
  Max(0, normalizedFactCheckBudgetMs - normalizedFactCheckResponseBufferMs - now)

DraftIssued == EvidenceCaller.pc = "draft" /\ EvidenceCaller.calls.draft = 1

\* C23: the facts-draft call is issued exactly when the primary-only
\* coverage score is at least 2 and at least 260 ms of the evidence budget
\* are left after the response buffer, and it is issued with the lesser of
\* its configured timeout and that remaining time.
C23_DraftGateAndTimeout ==
  EvidenceCaller.evidence # None =>
    /\ DraftIssued <=>
         /\ EvidenceCaller.evidence[1].primaryCoverageScore >= 2
         /\ LeftForDraft >= 260
    /\ DraftIssued =>
         EvidenceCaller.draftTimeoutMs =
           Min(normalizedFactCheckClaudeTimeoutMs, LeftForDraft)

(***************************************************************************)
(* The sources of a verification result, checked under SpecEvidence.       *)
(***************************************************************************)
\* The provider calls the evidence stage has made, each with what it ended
\* in.
ProvidersCalled ==
  {<<"Wikimedia", vInput.wiki>>}
    \cup (IF EvidenceCaller.calls.provider = 3
          THEN {<<"Art Institute of Chicago", vInput.aic>>,
                <<"Cleveland Museum of Art", vInput.cma>>}
          ELSE {})

SourcesListed == EvidenceCaller.response[1].payload[1].factCheck.sources

\* C24: the sources of a verification result are the names of the providers
\* that were called, returned, and returned at least one record, each name
\* once; a provider that threw or returned no record is not among them.
C24_SourcesAreProvidersWithRecords ==
  EvidenceCaller.path = "validate_merge" =>
    /\ SeqToSet(SourcesListed) =
         {call[1] : call \in {c \in ProvidersCalled :
                                ~ c[2].threw /\ Len(c[2].output.records) >= 1}}
    /\ Len(SourcesListed) = Cardinality(SeqToSet(SourcesListed))

\* Wikimedia threw, the Art Institute returned no record and Cleveland
\* returned two: Cleveland alone is listed.
C24_Witness ==
  /\ EvidenceCaller.path = "validate_merge"
  /\ EvidenceCaller.calls.provider = 3
  /\ vInput.wiki.threw
  /\ ~ vInput.aic.threw /\ Len(vInput.aic.output.records) = 0
  /\ SourcesListed = <<"Cleveland Museum of Art">>

(***************************************************************************)
(* The verified facts, checked under SpecValidator.                        *)
(***************************************************************************)
\* The candidates of a draft (trimmed, at least 12 characters) that are
\* supported and repeat no earlier supported candidate, in draft order, cut
\* to the cap.
FirstSupported(candidates, knowledge, cap) ==
  LET kept == {i \in DOMAIN candidates :
                 /\ SupportedBy(candidates[i], knowledge)
                 /\ \A j \in 1..(i - 1) :
                      SupportedBy(candidates[j], knowledge)
                        => normalize(candidates[j]) # normalize(candidates[i])}
      Nth(k) == CHOOSE i \in kept : Cardinality({j \in kept : j <= i}) = k
  IN  [k \in 1..Min(Cardinality(kept), cap) |-> candidates[Nth(k)]]

\* maxFacts clamped into 1..5.
ClampedMaxFacts ==
  IF vInput.maxFacts < 1 THEN 1 ELSE IF vInput.maxFacts > 5 THEN 5 ELSE vInput.maxFacts

SentenceSpans(addon) ==
  LET starts == {i \in DOMAIN addon :
                   /\ addon[i] \notin WhitespaceChars
                   /\ \/ \A j \in 1..(i - 1) : addon[j] \in WhitespaceChars
                      \/ /\ i > 2 /\ addon[i-1] \in WhitespaceChars
                         /\ \E e \in 1..(i - 2) :
                              /\ addon[e] \in SentenceEnders
                              /\ \A j \in (e + 1)..(i - 1) : addon[j] \in WhitespaceChars}
      EndOf(s) ==
        CHOOSE e \in s..Len(addon) :
          /\ addon[e] \notin WhitespaceChars
          /\ \/ \A j \in (e + 1)..Len(addon) : addon[j] \in WhitespaceChars
             \/ /\ addon[e] \in SentenceEnders /\ addon[e+1] \in WhitespaceChars
          /\ \A f \in s..(e - 1) :
               ~ (addon[f] \in SentenceEnders /\ addon[f+1] \in WhitespaceChars)
  IN  {<<s, EndOf(s)>> : s \in starts}

\* The summary the claim describes: the base summary, then the first two
\* supported sentences of the addon in their order, a single space before
\* each.
SummaryWithAddon(base, addon, knowledge) ==
  LET supported == {span \in SentenceSpans(addon) :
                      SupportedBy(SubSeq(addon, span[1], span[2]), knowledge)}
      first == {span \in supported :
                  Cardinality({other \in supported : other[1] < span[1]}) < 2}
      RECURSIVE Joined(_, _)
      Joined(text, spans) ==
        IF spans = {} THEN text
        ELSE LET span == CHOOSE sp \in spans : \A other \in spans : sp[1] <= other[1]
             IN  Joined(text \o <<" ">> \o SubSeq(addon, span[1], span[2]),
                        spans \ {span})
  IN  Joined(base, first)

RecognitionView(st) ==
  IF st.pc = "pass"
  THEN [inPasses |-> TRUE, locals |-> Some(st), finalPayload |-> st.finalPayload,
        passError |-> st.passError, failure |-> None]
  ELSE [inPasses |-> FALSE, locals |-> None, finalPayload |-> st.finalPayload,
        passError |-> st.passError,
        failure |-> IF st.response # None /\ st.response[1].payload = None
                    THEN st.response ELSE None]

\* C27: whatever a model call of a recognition pass ends in, the handler
\* goes on in the same way in off, shadow and enrich mode and with any
\* content of the cache: the same next attempt or pass, the same accepted
\* attribution, the same hard failure.  As a handler enters the passes in
\* the same state in every mode, the passes of two handlers that meet the
\* same outcomes are the same.
C27_PassesIgnoreMode ==
  \A r \in Req :
    req[r].pc = "pass" =>
      \A outcome \in ModelOutcomes, FACTCHECK_MODE \in FactCheckModes \ {mode} :
        RecognitionView(AttemptReturned(req[r], outcome, FACTCHECK_MODE, <<>>, now).st)
          = RecognitionView(AttemptReturned(req[r], outcome, mode, factCheckCache, now).st)

\* With fact-checking off, one handler is in the second attempt of its retry
\* pass and another has failed hard after both passes.
C27_Witness ==
  /\ mode = "off"
  /\ \E r1, r2 \in Req :
       /\ req[r1].pc = "pass" /\ req[r1].pass = "retry" /\ req[r1].attempt = 2
       /\ req[r2].path = "unknown"

(***************************************************************************)
(* The order of the stages of one request, checked under Spec.             *)
(***************************************************************************)
\* The place of a handler in the order of the stages: not yet received,
\* primary pass, retry pass, evidence fetch, facts draft, responded.  The
\* validation, the unknown check and validate-merge take no step of their
\* own: a handler passes them inside the step that leaves the stage before.
StageRank(st) ==
  CASE st.pc = "idle" -> 0
    [] st.pc = "pass" /\ st.pass = "primary" -> 1
    [] st.pc = "pass" /\ st.pass = "retry" -> 2
    [] st.pc \in {"phaseA", "phaseB"} -> 3
    [] st.pc = "draft" -> 4
    [] st.pc = "done" -> 5

C28_Step(r) ==
  LET st == req[r]
      st2 == req'[r]
  IN  st2 # st =>
        /\ st.pc # "done"
        /\ StageRank(st2) >= StageRank(st)
        /\ st.pc = "idle" =>
             (StageRank(st2) = 1 \/ st2.path = "validation_failed")
        /\ StageRank(st2) = 2 => st.pc = "pass"
        /\ st2.path \in {"primary_failed", "unknown", "skip", "cache_hit"} => st.pc = "pass"
        /\ st2.pc = "phaseA" => (st.pc = "pass" /\ st2.calls.provider = 1)
        /\ st2.pc = "phaseB" => st.pc = "phaseA"
        /\ st2.calls.draft > st.calls.draft =>
             /\ st.pc \in {"phaseA", "phaseB"} /\ st2.pc = "draft"
             /\ st.evidence = None /\ st2.evidence # None
        /\ st2.calls.validate > st.calls.validate =>
             /\ st2.pc = "done" /\ st2.path = "validate_merge"
             /\ st2.evidence # None
             /\ \/ st.pc = "draft" /\ st.calls.draft = 1
                \/ st.pc \in {"phaseA", "phaseB"} /\ st2.calls.draft = 0

\* C28: a handler moves through received and validated, primary pass,
\* optional retry pass, unknown check, then one of skip, cache hit and
\* evidence fetch with optional facts draft and validate-merge, then the
\* response, and never backwards: provider calls, cache reads and the skip
\* happen only for an attribution that passed the unknown check, the draft
\* call starts in the step in which the evidence fetch returns, and
\* validate-merge runs after the fetch and, if a draft call was made, after
\* that call.
C28_StagesInOrder ==
  /\ [] \A r \in Req :
          /\ (req[r].pc = "done") <=> (req[r].response # None)
          /\ (\/ req[r].calls.provider > 0 \/ req[r].calls.cacheReads > 0
              \/ req[r].path \in {"skip", "cache_hit"}) =>
               /\ req[r].pc # "pass" /\ req[r].finalPayload # None
               /\ ~ BothUnknown(AcceptedOf(r))
          /\ req[r].path = "skip" => req[r].calls = ZeroCalls
          /\ req[r].path = "cache_hit" =>
               (req[r].calls.provider = 0 /\ req[r].calls.draft = 0
                  /\ req[r].calls.validate = 0)
          /\ req[r].calls.draft > 0 => req[r].evidence # None
          /\ req[r].calls.validate > 0 => req[r].pc = "done"
          /\ req[r].calls.draft <= 1 /\ req[r].calls.validate <= 1
  /\ [][\A r \in Req : C28_Step(r)]_vars

\* One handler has gone through both phases of the fetch, the draft call
\* and validate-merge; another was answered from the cache.
C28_Witness ==
  \E r1, r2 \in Req :
    /\ req[r1].path = "validate_merge"
    /\ req[r1].calls.provider = 3 /\ req[r1].calls.draft = 1 /\ req[r1].calls.validate = 1
    /\ req[r2].path = "cache_hit"

(***************************************************************************)
(* The model calls of one request, checked under Spec.                     *)
(***************************************************************************)
\* The model calls a handler is waiting for: the call of the current attempt
\* of a recognition pass, the facts-draft call.
ModelCallsInFlight(st) ==
  (IF st.pc = "pass" THEN {<<st.pass, st.attempt>>} ELSE {})
    \cup (IF st.pc = "draft" THEN {<<"draft", st.calls.draft>>} ELSE {})

\* The outcome is a text that holds a JSON object.
Usable(outcome) == outcome.kind = "text" /\ outcome.shape = "object"

\* What the return of the call in flight leads to, for one outcome.
C29_AfterCall(st, outcome, next) ==
  /\ Cardinality(ModelCallsInFlight(next)) <= 1
  /\ next.calls.draft = 0
  /\ (next.pc = "pass" /\ next.pass = st.pass) =>
       /\ ~ Usable(outcome)
       /\ st.attempt = 1 /\ next.attempt = 2
       /\ next.lastError # None /\ next.lastError[1].retryable
  /\ (next.pc = "pass" /\ next.pass # st.pass) =>
       /\ Usable(outcome)
       /\ st.pass = "primary" /\ next.pass = "retry" /\ next.attempt = 1
       /\ next.primary = Some(sanitizeResponse(outcome.raw))

\* C29: a handler waits for at most one model call; the second attempt of a
\* pass is started only by the failure of the first, the retry pass only by
\* the return of the primary pass with a payload, and the facts-draft call
\* only when no pass is running any more.
C29_OneModelCallInFlight ==
  \A r \in Req :
    /\ Cardinality(ModelCallsInFlight(req[r])) <= 1
    /\ req[r].pc = "pass" =>
         /\ req[r].attempt \in 1..2 /\ req[r].calls.draft = 0
         /\ req[r].attempt = 2 => req[r].lastError # None
         /\ req[r].pass = "retry" => req[r].primary # None
         /\ \A outcome \in ModelOutcomes :
              C29_AfterCall(req[r], outcome,
                            AttemptReturned(req[r], outcome, mode, factCheckCache, now).st)
    /\ req[r].calls.draft > 0 =>
         /\ req[r].pc \in {"draft", "done"}
         /\ req[r].pass = "none" /\ req[r].attempt = 0
         /\ req[r].finalPayload # None

\* One handler is in the second attempt of its retry pass while another
\* waits for its facts-draft call.
C29_Witness ==
  \E r1, r2 \in Req :
    /\ ModelCallsInFlight(req[r1]) = {<<"retry", 2>>}
    /\ ModelCallsInFlight(req[r2]) = {<<"draft", 1>>}

(***************************************************************************)
(* The timeout of the secondary providers, checked under SpecEvidence.     *)
(***************************************************************************)
\* C30: when Phase B runs, the timeout handed to the secondary providers is
\* the lesser of the per-provider timeout and 90% of the time left before
\* the hard stop: it exceeds neither.
C30_SecondaryTimeoutIsLesser ==
  EvidenceCaller.calls.provider = 3 =>
    /\ EvidenceCaller.perSecondaryTimeout <= normalizedProviderTimeoutMs
    /\ 10 * EvidenceCaller.perSecondaryTimeout <= 9 * RemainingAfterA
    /\ \/ EvidenceCaller.perSecondaryTimeout = normalizedProviderTimeoutMs
       \/ EvidenceCaller.perSecondaryTimeout = (9 * RemainingAfterA) \div 10

(***************************************************************************)
(* The coverage scores of a bundle, checked under SpecEvidence.            *)
(***************************************************************************)
\* The attribution fields that have a record among records.
FieldsCovered(records) ==
  {field \in {"painting", "artist", "year", "museum", "style"} :
     \E i \in DOMAIN records : records[i].field = field}

\* C31: the coverage score of a bundle is the number of the five attribution
\* fields that have a record in it, a number in 0..5 that records of the
\* summary field do not raise; the primary-only score is that number for the
\* records of Phase A and never exceeds the full score.
C31_CoverageCountsAttributionFields ==
  EvidenceCaller.evidence # None =>
    /\ BundleOf(EvidenceCaller).coverageScore =
         Cardinality(FieldsCovered(BundleOf(EvidenceCaller).records))
    /\ BundleOf(EvidenceCaller).coverageScore \in 0..5
    /\ BundleOf(EvidenceCaller).primaryCoverageScore =
         Cardinality(FieldsCovered(KeptOf(vInput.wiki, "Wikimedia", "primary").records))
    /\ BundleOf(EvidenceCaller).primaryCoverageScore
         <= BundleOf(EvidenceCaller).coverageScore

\* A bundle with records of all five fields and of the summary field: the
\* score is 5, the primary-only score 3.
C31_Witness ==
  /\ EvidenceCaller.evidence # None
  /\ BundleOf(EvidenceCaller).coverageScore = 5
  /\ BundleOf(EvidenceCaller).primaryCoverageScore = 3
  /\ \E i \in DOMAIN BundleOf(EvidenceCaller).records :
       BundleOf(EvidenceCaller).records[i].field = "summary"
  /\ Len(BundleOf(EvidenceCaller).records) > 5

(***************************************************************************)
(* The support decision against the predicate of the specification,        *)
(* checked under SpecValidator.                                            *)
(***************************************************************************)
\* The predicate as the specification words it: no year conflict, and a
\* known title, creator, location or style value in the text, or two evidence
\* tokens shared with the evidence, one being enough for a text of at most 7
\* tokens.
SpecifiedSupport(text, knowledge) ==
  LET normalized == normalize(text)
      candidates == tokenize(text)
      shared == SeqToSet(candidates) \cap knowledge.evidenceTokens
      strong == \E value \in knowledge.painting \cup knowledge.artist
                               \cup knowledge.museum \cup knowledge.style :
                  Includes(normalized, value)
      weak == \/ Cardinality(shared) >= 2
              \/ Cardinality(shared) >= 1 /\ Len(candidates) <= 7
  IN  /\ ~ hasYearConflict(text, knowledge.year)
      /\ strong \/ weak

\* The texts the call in progress decided on.
DecidedTexts ==
  IF vResult = None THEN {}
  ELSE SeqToSet(candidateFactsOf(vInput.draft))
         \cup SeqToSet(addonSentencesOf(vInput.draft))

\* C33: the support decision of every text a call decides on equals the
\* predicate of the specification; in particular a text of more than 7 tokens
\* that shares one distinct evidence token is not supported by the weak rule.
C33_SupportDecisionIsSpecified ==
  \A text \in DecidedTexts :
    isSupportedText(text, VKnowledge) <=> SpecifiedSupport(text, VKnowledge)

(***************************************************************************)
(* The cache under concurrent requests, checked under Spec.                *)
(***************************************************************************)
\* A step leaves every entry that has not expired by the end of the step as
\* it was.
C34_Step ==
  \A key \in DOMAIN factCheckCache :
    factCheckCache[key].expiresAt > now' =>
      /\ key \in DOMAIN factCheckCache'
      /\ factCheckCache'[key] = factCheckCache[key]

\* C34: under every interleaving of concurrent requests the lookup and the
\* write-back of the cache are atomic per subject key: no request overwrites
\* an entry that has not expired, so one time-to-live window sees at most one
\* cache write per key.
C34_CacheIsAtomicPerKey ==
  [][C34_Step]_vars

(***************************************************************************)
(* Skipped statuses and the content they come with, checked under Spec.    *)
(***************************************************************************)
SkippedStatus(status) == status \in {"skipped_timeout", "skipped_no_evidence"}

\* C36: a success response whose fact-check status is skipped_timeout or
\* skipped_no_evidence has no facts, a verified-fact count of 0 and the
\* summary of the recognition result, on every path of the pipeline, cache
\* hits included.
C36_SkippedStatusHasNoEnrichment ==
  \A r \in Req :
    (Succeeded(r) /\ SkippedStatus(BodyOf(r).factCheck.status)) =>
      /\ BodyOf(r).facts = <<>>
      /\ BodyOf(r).factCheck.verifiedFacts = 0
      /\ BodyOf(r).summary = AcceptedOf(r).summary

(***************************************************************************)
(* The provider outcomes of a bundle against its records, checked under    *)
(* SpecEvidence.                                                           *)
(***************************************************************************)
RECURSIVE SumOfRecordCounts(_)
SumOfRecordCounts(sources) ==
  IF Len(sources) = 0 THEN 0
  ELSE sources[1].recordCount + SumOfRecordCounts(Tail(sources))

\* The records the providers of Phase B handed over, in call order (none
\* when Phase B was skipped).
PhaseBRecords ==
  IF EvidenceCaller.calls.provider = 3
  THEN KeptOf(vInput.aic, "Art Institute of Chicago", "secondary").records
         \o KeptOf(vInput.cma, "Cleveland Museum of Art", "secondary").records
  ELSE <<>>

\* C37: in every bundle a provider outcome has ok exactly when its
\* recordCount is positive, its recordCount is the number of records of the
\* bundle that come from that provider, and the records are those of Phase A
\* followed by those of Phase B, as many as the recordCounts add up to.
C37_OutcomesMatchRecords ==
  EvidenceCaller.evidence # None =>
    /\ \A i \in DOMAIN BundleOf(EvidenceCaller).sources :
         /\ BundleOf(EvidenceCaller).sources[i].ok
              <=> BundleOf(EvidenceCaller).sources[i].recordCount > 0
         /\ BundleOf(EvidenceCaller).sources[i].recordCount =
              Cardinality({j \in DOMAIN BundleOf(EvidenceCaller).records :
                             BundleOf(EvidenceCaller).records[j].sourceName =
                               BundleOf(EvidenceCaller).sources[i].name})
    /\ BundleOf(EvidenceCaller).records =
         KeptOf(vInput.wiki, "Wikimedia", "primary").records \o PhaseBRecords
    /\ Len(BundleOf(EvidenceCaller).records) =
         SumOfRecordCounts(BundleOf(EvidenceCaller).sources)

\* Wikimedia returned four records, the Art Institute three and Cleveland
\* none: seven records, the third outcome not ok.
C37_Witness ==
  /\ EvidenceCaller.evidence # None
  /\ Len(BundleOf(EvidenceCaller).sources) = 3
  /\ BundleOf(EvidenceCaller).sources[1].recordCount = 4
  /\ BundleOf(EvidenceCaller).sources[2].recordCount = 3
  /\ ~ vInput.cma.threw
  /\ ~ BundleOf(EvidenceCaller).sources[3].ok
  /\ Len(BundleOf(EvidenceCaller).records) = 7

(***************************************************************************)
(* What a request that does not complete validate-merge does to the cache, *)
(* checked under Spec.                                                     *)
(***************************************************************************)
\* Request r takes the step and does not complete validate-merge in it.
StepsWithoutMerge(r) ==
  /\ req'[r] # req[r]
  /\ ~ (req'[r].path = "validate_merge" /\ req[r].path # "validate_merge")

C40_CountMatchesFactsList ==
  \A r \in Req :
    Succeeded(r) => BodyOf(r).factCheck.verifiedFacts = Len(BodyOf(r).facts)

(***************************************************************************)
(* Termination and the calls of one request, checked under SpecLive.       *)
(***************************************************************************)
\* The place of the recognition model call in flight among the four a
\* request can make: attempts 1 and 2 of the primary pass, attempts 1 and 2
\* of the retry pass; 0 when none is in flight.
CallRank(st) ==
  IF st.pc # "pass" THEN 0
  ELSE (IF st.pass = "primary" THEN 0 ELSE MAX_RETRY_ATTEMPTS) + st.attempt

\* The step issues a recognition model call of request r.
IssuesModelCall(r) ==
  /\ req'[r].pc = "pass"
  /\ \/ req[r].pc # "pass"
     \/ req'[r].pass # req[r].pass
     \/ req'[r].attempt # req[r].attempt

\* A recognition model call is issued by an idle handler or from the return
\* of the call before it, and is a later one of the four; a handler that has
\* answered does nothing more.
C39_Step(r) ==
  /\ IssuesModelCall(r) =>
       /\ req[r].pc \in {"idle", "pass"}
       /\ CallRank(req'[r]) \in 1..(2 * MAX_RETRY_ATTEMPTS)
       /\ CallRank(req'[r]) > CallRank(req[r])
  /\ req[r].pc = "done" => req'[r] = req[r]

\* C39: when every outbound call completes or is aborted by its timer, every
\* request that was received is eventually answered, with one response, after
\* at most 4 recognition model calls (two attempts in each of two passes) and
\* at most 1 facts-draft call.
C39_EveryRequestIsAnsweredOnce ==
  /\ \A r \in Req : (req[r].pc # "idle") ~> (req[r].pc = "done")
  /\ [](\A r \in Req : /\ req[r].pc = "done" <=> req[r].response # None
                       /\ req[r].calls.draft <= 1)
  /\ [][\A r \in Req : C39_Step(r)]_vars

\* A request answered through validate-merge after its one facts-draft call.
C39_Witness ==
  \E r \in Req :
    /\ Succeeded(r)
    /\ req[r].path = "validate_merge"
    /\ req[r].calls.draft = 1

(***************************************************************************)
(* C32: the variant loop of Phase A, checked under SpecProviders.          *)
(***************************************************************************)
\* The candidates the language attempts of a run hold.
CandidatesOf(run) ==
  {run.attempts[language].candidate[1] :
     language \in {l \in DOMAIN run.attempts : run.attempts[l].candidate # None}}

AllSettled(run) ==
  \A language \in DOMAIN run.attempts : run.attempts[language].stage = "settled"

\* One step of the run: the searches it sends, the variant it moves to and
\* the way it leaves the loop.
C32_Step ==
  LET run == vResult
      next == vResult'
      searchesSent == {c \in next.calls \ run.calls : c.kind = "search"}
  IN  /\ next.variant # run.variant =>
           /\ next.variant = run.variant + 1
           /\ AllSettled(run)
           /\ CandidatesOf(run) = {}
      /\ searchesSent # {} =>
           /\ next.variant = run.variant + 1
           /\ {c.language : c \in searchesSent} = SeqToSet(WIKIMEDIA_LANGUAGES)
           /\ \A c \in searchesSent : c.issuedAt = now'
      /\ (run.pc = "variants" /\ next.pc # "variants") =>
           /\ AllSettled(run)
           /\ IF CandidatesOf(run) = {}
              THEN /\ run.variant = Len(queryVariants(vInput.query))
                   /\ next.bestCandidate = None
              ELSE /\ next.bestCandidate # None
                   /\ next.bestCandidate[1] \in CandidatesOf(run)

\* C32: the query variants are title plus creator, title alone, title plus
\* " painting", tried in that order one at a time; the searches of a variant
\* are sent together, one per language, and the next variant starts only
\* when all of them have settled and none produced a candidate; a candidate
\* of any language ends the loop, whatever happened to the other language,
\* and no search or summary is sent after the loop.
C32_VariantsInOrderUntilCandidate ==
  /\ [](/\ vResult.variant \in 1..Len(queryVariants(vInput.query))
        /\ (vInput.query.painting # <<>> /\ vInput.query.artist # <<>>) =>
             queryVariants(vInput.query)
               = <<vInput.query.painting \o <<" ">> \o vInput.query.artist,
                   vInput.query.painting,
                   vInput.query.painting \o <<" ", "p", "a", "i", "n", "t", "i", "n", "g">>>>
        /\ vResult.pc # "variants" =>
             \A c \in vResult.calls : c.kind \notin {"search", "summary"}
        /\ \A c \in vResult.calls, d \in vResult.calls :
             (c.kind = "search" /\ d.kind = "search") => c.issuedAt = d.issuedAt)
  /\ [][C32_Step]_vars

\* The loop ended at the second of three variants with the candidate of the
\* Russian search, the English search of that variant having produced none.
C32_Witness ==
  /\ vResult.pc # "variants"
  /\ vResult.variant = 2
  /\ Len(queryVariants(vInput.query)) = 3
  /\ vResult.bestCandidate # None
  /\ vResult.bestCandidate[1].language = "ru"
  /\ vResult.attempts["en"].candidate = None

====
